---- MODULE Spec2Model ----
(***************************************************************************)
(* Model of the jsoncons reflection layer: the json_conv_traits entries    *)
(* generated by the JSONCONS_*_TRAITS macros (reflect_traits_gen.hpp) and  *)
(* the optional / smart pointer / integer entries they rest on, together   *)
(* with the pair, tuple, fixed-size array, container, variant, map,        *)
(* duration and bit-set entries (json_conv_traits.hpp), the streaming      *)
(* encode_traits of the mapped aggregates, and the MessagePack decoder.    *)
(*                                                                         *)
(* A conversion is a pure function; the state records the last operation   *)
(* applied, the mapping it was applied under, its argument and its result. *)
(***************************************************************************)
EXTENDS Integers, Sequences, FiniteSets, TLC

VARIABLES op, cls, arg, out, orig

vars == <<op, cls, arg, out, orig>>

\* Largest number of fields of a mapped aggregate.
MaxFields == 2

-----------------------------------------------------------------------------
(* Document values (basic_json).  One record shape for every kind.         *)

JNull == [kind |-> "null", n |-> 0, s |-> "", members |-> <<>>]
JInt(i) == [kind |-> "int", n |-> i, s |-> "", members |-> <<>>]
JStr(str) == [kind |-> "string", n |-> 0, s |-> str, members |-> <<>>]
JObject(ms) == [kind |-> "object", n |-> 0, s |-> "", members |-> ms]

is_null(j) == j.kind = "null"
is_object(j) == j.kind = "object"

contains(j, key) == \E k \in 1..Len(j.members) : j.members[k].key = key

find(j, key) ==
    IF contains(j, key)
    THEN CHOOSE k \in 1..Len(j.members) :
            /\ j.members[k].key = key
            /\ \A k2 \in 1..(k-1) : j.members[k2].key # key
    ELSE 0

try_emplace(j, key, val) ==
    IF contains(j, key) THEN j
    ELSE [j EXCEPT !.members = Append(@, [key |-> key, value |-> val])]

-----------------------------------------------------------------------------
(* Native field values.  A plain field always holds a value; an optional,  *)
(* shared_ptr or unique_ptr field holds a value or is empty.               *)

Types == {"plain", "optional", "shared_ptr", "unique_ptr"}

Engaged(v) == [has |-> TRUE, v |-> v]
Empty == [has |-> FALSE, v |-> 0]

\* T(): the value-initialised field of each type.
DefaultValue(T) == IF T = "plain" THEN Engaged(0) ELSE Empty

IntValues == {0, 1}

FieldValues(T) ==
    IF T = "plain" THEN {Engaged(v) : v \in IntValues}
    ELSE {Empty} \cup {Engaged(v) : v \in IntValues}

\* conversion_result<T>
Expected(v) == [ok |-> TRUE, value |-> v, ec |-> "", arg |-> <<>>]
Unexpected(ec, a) == [ok |-> FALSE, value |-> <<>>, ec |-> ec, arg |-> a]

-----------------------------------------------------------------------------
(* Entries of the field types.                                             *)

try_as_integer(j) ==
    IF j.kind = "int" THEN Expected(Engaged(j.n))
    ELSE Unexpected("not_integer", <<>>)

integer_to_json(val) == JInt(val.v)

\* A shared_ptr entry that replaces the inner extraction's error.
shared_ptr_try_as_replaces_error(j) ==
    IF is_null(j) THEN Expected(Empty)
    ELSE IF ~try_as_integer(j).ok THEN Unexpected("conversion_failed", <<>>)
    ELSE try_as_integer(j)

shared_ptr_try_as(j) ==
    IF is_null(j) THEN Expected(Empty) ELSE try_as_integer(j)

shared_ptr_to_json(ptr) ==
    IF ptr.has THEN integer_to_json(ptr) ELSE JNull

unique_ptr_try_as(j) ==
    IF is_null(j) THEN Expected(Empty) ELSE try_as_integer(j)

unique_ptr_to_json(ptr) ==
    IF ptr.has THEN integer_to_json(ptr) ELSE JNull

\* An optional entry that does not read null as the empty optional.
optional_try_as_null_fails(j) == try_as_integer(j)

optional_try_as(j) ==
    IF is_null(j) THEN Expected(Empty) ELSE try_as_integer(j)

optional_to_json(val) ==
    IF val.has THEN integer_to_json(val) ELSE JNull

\* j.try_as<T>() and Json(val) dispatched on the field type.
field_try_as(T, j) ==
    CASE T = "plain" -> try_as_integer(j)
      [] T = "optional" -> optional_try_as(j)
      [] T = "shared_ptr" -> shared_ptr_try_as(j)
      [] T = "unique_ptr" -> unique_ptr_try_as(j)

field_to_json(T, val) ==
    CASE T = "plain" -> integer_to_json(val)
      [] T = "optional" -> optional_to_json(val)
      [] T = "shared_ptr" -> shared_ptr_to_json(val)
      [] T = "unique_ptr" -> unique_ptr_to_json(val)

-----------------------------------------------------------------------------
(* json_traits_helper                                                      *)

try_get_member(T, j, key) ==
    IF find(j, key) = 0
    THEN Unexpected("missing_required_member", <<>>)
    ELSE LET result == field_try_as(T, j.members[find(j, key)].value)
         IN  IF ~result.ok
             THEN Unexpected("conversion_failed", <<>>)
             ELSE Expected(result.value)

set_optional_json_member(T, key, val, j) ==
    IF T = "plain"
    THEN try_emplace(j, key, field_to_json(T, val))
    ELSE IF val.has THEN try_emplace(j, key, field_to_json(T, val)) ELSE j

-----------------------------------------------------------------------------
(* A mapping declared by one of the JSONCONS_*_TRAITS macros:              *)
(*   family         which macro set generated the entry                    *)
(*   variant        "ALL" or "N": the JSONCONS_ALL_ or JSONCONS_N_ macro   *)
(*   types          the declared fields' types, in declaration order       *)
(*   num_mandatory  NumMandatoryParams; the ALL macros pass the field count*)
(* Field i is declared under the member name i.                            *)

Families == {"MEMBER", "MEMBER_NAME", "CTOR_GETTER", "CTOR_GETTER_NAME",
             "GETTER_SETTER", "GETTER_SETTER_NAME"}

Variants == {"ALL", "N"}

ClassName == "ClassType"

ClassesOf(n) ==
    {c \in [family : Families, variant : Variants, types : [1..n -> Types],
            num_mandatory : 0..n] :
        c.variant = "ALL" => c.num_mandatory = n}

Classes == UNION {ClassesOf(n) : n \in 1..MaxFields}

num_params(c) == Len(c.types)

\* Member(unexpect): # Prefix ": " # Member
JSONCONS_GENERATE_NAME_STR(i) == <<ClassName, i>>

\* class_name: # ClassType
class_name == <<ClassName>>

\* value_type class_instance{}
value_initialized(c) == [i \in 1..num_params(c) |-> DefaultValue(c.types[i])]

Instances(c) ==
    {v \in [1..num_params(c) -> UNION {FieldValues(T) : T \in Types}] :
        \A i \in 1..num_params(c) : v[i] \in FieldValues(c.types[i])}

-----------------------------------------------------------------------------
(* is: one macro expansion per declared field; TRUE when the expansion     *)
(* executes "return false".                                                *)

\* An is step that demands every declared member, mandatory or not.
JSONCONS_N_MEMBER_IS_every_field(c, i, ajson) == ~contains(ajson, i)

JSONCONS_N_MEMBER_IS(c, i, ajson) ==
    (i - 1) < c.num_mandatory /\ ~contains(ajson, i)

JSONCONS_MEMBER_NAME_IS(c, i, ajson) ==
    (i - 1) < c.num_mandatory /\ ~contains(ajson, i)

JSONCONS_CTOR_GETTER_IS(c, i, ajson) ==
    (i - 1) < c.num_mandatory /\ ~contains(ajson, i)

JSONCONS_CTOR_GETTER_NAME_IS(c, i, ajson) ==
    (i - 1) < c.num_mandatory /\ ~contains(ajson, i)

JSONCONS_GETTER_SETTER_NAME_IS(c, i, ajson) ==
    (i - 1) < c.num_mandatory /\ ~contains(ajson, i)

IS_returns_false(c, i, ajson) ==
    CASE c.family = "MEMBER" -> JSONCONS_N_MEMBER_IS(c, i, ajson)
      [] c.family = "GETTER_SETTER" -> JSONCONS_N_MEMBER_IS(c, i, ajson)
      [] c.family = "MEMBER_NAME" -> JSONCONS_MEMBER_NAME_IS(c, i, ajson)
      [] c.family = "CTOR_GETTER" -> JSONCONS_CTOR_GETTER_IS(c, i, ajson)
      [] c.family = "CTOR_GETTER_NAME" -> JSONCONS_CTOR_GETTER_NAME_IS(c, i, ajson)
      [] c.family = "GETTER_SETTER_NAME" -> JSONCONS_GETTER_SETTER_NAME_IS(c, i, ajson)

\* json_conv_traits<Json, ClassType>::is
is(c, ajson) ==
    IF ~is_object(ajson) THEN FALSE
    ELSE ~\E i \in 1..num_params(c) : IS_returns_false(c, i, ajson)

-----------------------------------------------------------------------------
(* try_as: one macro expansion per declared field, run in declaration      *)
(* order.  An expansion either returns from try_as (ret) with the result   *)
(* res, or falls through with the updated local state.                     *)

Return(r) == [ret |-> TRUE, res |-> r, inst |-> <<>>]
FallThrough(inst) == [ret |-> FALSE, res |-> Expected(<<>>), inst |-> inst]

\* A try_as step that does not forgive a missing optional member.
JSONCONS_N_MEMBER_AS_no_default(c, i, ajson, class_instance) ==
    LET result == try_get_member(c.types[i], ajson, i)
    IN  IF result.ok
        THEN FallThrough([class_instance EXCEPT ![i] = result.value])
        ELSE Return(Unexpected(result.ec, JSONCONS_GENERATE_NAME_STR(i)))

JSONCONS_N_MEMBER_AS(c, i, ajson, class_instance) ==
    LET result == try_get_member(c.types[i], ajson, i)
    IN  IF result.ok
        THEN FallThrough([class_instance EXCEPT ![i] = result.value])
        ELSE IF (i - 1) < c.num_mandatory
        THEN Return(Unexpected(result.ec, JSONCONS_GENERATE_NAME_STR(i)))
        ELSE IF result.ec # "missing_required_member"
        THEN Return(Unexpected(result.ec, JSONCONS_GENERATE_NAME_STR(i)))
        ELSE FallThrough(class_instance)

JSONCONS_ALL_MEMBER_AS(c, i, ajson, class_instance) ==
    LET result == try_get_member(c.types[i], ajson, i)
    IN  IF result.ok
        THEN FallThrough([class_instance EXCEPT ![i] = result.value])
        ELSE Return(Unexpected(result.ec, JSONCONS_GENERATE_NAME_STR(i)))

\* The forms without Match, Into and From: Mode is JSONCONS_RDWR and
\* Match is always_true().
JSONCONS_N_MEMBER_NAME_AS(c, i, ajson, class_instance) ==
    LET result == try_get_member(c.types[i], ajson, i)
    IN  IF result.ok
        THEN FallThrough([class_instance EXCEPT ![i] = result.value])
        ELSE IF (i - 1) < c.num_mandatory
        THEN Return(Unexpected(result.ec, class_name))
        ELSE IF result.ec # "missing_required_member"
        THEN Return(Unexpected(result.ec, class_name))
        ELSE FallThrough(class_instance)

JSONCONS_ALL_MEMBER_NAME_AS(c, i, ajson, class_instance) ==
    LET result == try_get_member(c.types[i], ajson, i)
    IN  IF result.ok
        THEN FallThrough([class_instance EXCEPT ![i] = result.value])
        ELSE Return(Unexpected(result.ec, class_name))

JSONCONS_N_GETTER_SETTER_AS(c, i, ajson, class_instance) ==
    LET result == try_get_member(c.types[i], ajson, i)
    IN  IF result.ok
        THEN FallThrough([class_instance EXCEPT ![i] = result.value])
        ELSE IF (i - 1) < c.num_mandatory
        THEN Return(Unexpected(result.ec, <<ClassName>>))
        ELSE IF result.ec # "missing_required_member"
        THEN Return(Unexpected(result.ec, <<ClassName>>))
        ELSE FallThrough(class_instance)

JSONCONS_ALL_GETTER_SETTER_AS(c, i, ajson, class_instance) ==
    LET result == try_get_member(c.types[i], ajson, i)
    IN  IF ~result.ok
        THEN Return(Unexpected(result.ec, <<ClassName, i>>))
        ELSE FallThrough([class_instance EXCEPT ![i] = result.value])

JSONCONS_N_GETTER_SETTER_NAME_AS(c, i, ajson, class_instance) ==
    LET result == try_get_member(c.types[i], ajson, i)
    IN  IF result.ok
        THEN FallThrough([class_instance EXCEPT ![i] = result.value])
        ELSE IF (i - 1) < c.num_mandatory
        THEN Return(Unexpected(result.ec, class_name))
        ELSE IF result.ec # "missing_required_member"
        THEN Return(Unexpected(result.ec, class_name))
        ELSE FallThrough(class_instance)

JSONCONS_ALL_GETTER_SETTER_NAME_AS(c, i, ajson, class_instance) ==
    LET result == try_get_member(c.types[i], ajson, i)
    IN  IF result.ok
        THEN FallThrough([class_instance EXCEPT ![i] = result.value])
        ELSE Return(Unexpected(result.ec, class_name))

\* The local state of the constructor families is the sequence of the
\* results _r<Getter> obtained so far.
JSONCONS_CTOR_GETTER_GET(c, i, ajson, rs) ==
    LET r == try_get_member(c.types[i], ajson, i)
    IN  IF ~r.ok /\ (i - 1) < c.num_mandatory
        THEN Return(Unexpected(r.ec, JSONCONS_GENERATE_NAME_STR(i)))
        ELSE FallThrough(Append(rs, r))

JSONCONS_CTOR_GETTER_AS(c, i, r) ==
    IF r.ok THEN r.value ELSE DefaultValue(c.types[i])

JSONCONS_CTOR_GETTER_NAME_GET(c, i, ajson, rs) ==
    LET r == try_get_member(c.types[i], ajson, i)
    IN  IF ~r.ok /\ (i - 1) < c.num_mandatory
        THEN Return(Unexpected(r.ec, class_name))
        ELSE FallThrough(Append(rs, r))

JSONCONS_CTOR_GETTER_NAME_AS(c, i, r) ==
    IF r.ok THEN r.value ELSE DefaultValue(c.types[i])

EXPAND_AS(Call, c, i, ajson, st) ==
    CASE Call = "JSONCONS_N_MEMBER_AS" -> JSONCONS_N_MEMBER_AS(c, i, ajson, st)
      [] Call = "JSONCONS_ALL_MEMBER_AS" -> JSONCONS_ALL_MEMBER_AS(c, i, ajson, st)
      [] Call = "JSONCONS_N_MEMBER_NAME_AS" -> JSONCONS_N_MEMBER_NAME_AS(c, i, ajson, st)
      [] Call = "JSONCONS_ALL_MEMBER_NAME_AS" -> JSONCONS_ALL_MEMBER_NAME_AS(c, i, ajson, st)
      [] Call = "JSONCONS_N_GETTER_SETTER_AS" -> JSONCONS_N_GETTER_SETTER_AS(c, i, ajson, st)
      [] Call = "JSONCONS_ALL_GETTER_SETTER_AS" -> JSONCONS_ALL_GETTER_SETTER_AS(c, i, ajson, st)
      [] Call = "JSONCONS_N_GETTER_SETTER_NAME_AS" -> JSONCONS_N_GETTER_SETTER_NAME_AS(c, i, ajson, st)
      [] Call = "JSONCONS_ALL_GETTER_SETTER_NAME_AS" -> JSONCONS_ALL_GETTER_SETTER_NAME_AS(c, i, ajson, st)
      [] Call = "JSONCONS_CTOR_GETTER_GET" -> JSONCONS_CTOR_GETTER_GET(c, i, ajson, st)
      [] Call = "JSONCONS_CTOR_GETTER_NAME_GET" -> JSONCONS_CTOR_GETTER_NAME_GET(c, i, ajson, st)

\* JSONCONS_VARIADIC_FOR_EACH(Call, ...) over the fields i..num_params.
RECURSIVE JSONCONS_VARIADIC_FOR_EACH(_, _, _, _, _)
JSONCONS_VARIADIC_FOR_EACH(Call, c, i, ajson, s) ==
    IF s.ret \/ i > num_params(c) THEN s
    ELSE JSONCONS_VARIADIC_FOR_EACH(Call, c, i + 1, ajson,
                                    EXPAND_AS(Call, c, i, ajson, s.inst))

JSONCONS_MEMBER_TRAITS_BASE_try_as(c, ajson) ==
    IF ~is_object(ajson) THEN Unexpected("expected_object", <<ClassName>>)
    ELSE LET s == IF num_params(c) = c.num_mandatory
                  THEN JSONCONS_VARIADIC_FOR_EACH("JSONCONS_ALL_MEMBER_AS", c, 1, ajson,
                                                  FallThrough(value_initialized(c)))
                  ELSE JSONCONS_VARIADIC_FOR_EACH("JSONCONS_N_MEMBER_AS", c, 1, ajson,
                                                  FallThrough(value_initialized(c)))
         IN  IF s.ret THEN s.res ELSE Expected(s.inst)

JSONCONS_MEMBER_NAME_TRAITS_BASE_try_as(c, ajson) ==
    IF ~is_object(ajson) THEN Unexpected("expected_object", <<ClassName>>)
    ELSE LET s == IF num_params(c) = c.num_mandatory
                  THEN JSONCONS_VARIADIC_FOR_EACH("JSONCONS_ALL_MEMBER_NAME_AS", c, 1, ajson,
                                                  FallThrough(value_initialized(c)))
                  ELSE JSONCONS_VARIADIC_FOR_EACH("JSONCONS_N_MEMBER_NAME_AS", c, 1, ajson,
                                                  FallThrough(value_initialized(c)))
         IN  IF s.ret THEN s.res ELSE Expected(s.inst)

JSONCONS_GETTER_SETTER_TRAITS_BASE_try_as(c, ajson) ==
    IF ~is_object(ajson) THEN Unexpected("expected_object", <<ClassName>>)
    ELSE LET s == IF num_params(c) = c.num_mandatory
                  THEN JSONCONS_VARIADIC_FOR_EACH("JSONCONS_ALL_GETTER_SETTER_AS", c, 1, ajson,
                                                  FallThrough(value_initialized(c)))
                  ELSE JSONCONS_VARIADIC_FOR_EACH("JSONCONS_N_GETTER_SETTER_AS", c, 1, ajson,
                                                  FallThrough(value_initialized(c)))
         IN  IF s.ret THEN s.res ELSE Expected(s.inst)

JSONCONS_GETTER_SETTER_NAME_TRAITS_BASE_try_as(c, ajson) ==
    IF ~is_object(ajson) THEN Unexpected("expected_object", class_name)
    ELSE LET s == IF num_params(c) = c.num_mandatory
                  THEN JSONCONS_VARIADIC_FOR_EACH("JSONCONS_ALL_GETTER_SETTER_NAME_AS", c, 1,
                                                  ajson, FallThrough(value_initialized(c)))
                  ELSE JSONCONS_VARIADIC_FOR_EACH("JSONCONS_N_GETTER_SETTER_NAME_AS", c, 1,
                                                  ajson, FallThrough(value_initialized(c)))
         IN  IF s.ret THEN s.res ELSE Expected(s.inst)

JSONCONS_CTOR_GETTER_TRAITS_BASE_try_as(c, ajson) ==
    IF ~is_object(ajson) THEN Unexpected("expected_object", <<ClassName>>)
    ELSE LET s == JSONCONS_VARIADIC_FOR_EACH("JSONCONS_CTOR_GETTER_GET", c, 1, ajson, FallThrough(<<>>))
         IN  IF s.ret THEN s.res
             ELSE Expected([i \in 1..num_params(c) |->
                               JSONCONS_CTOR_GETTER_AS(c, i, s.inst[i])])

JSONCONS_CTOR_GETTER_NAME_TRAITS_BASE_try_as(c, ajson) ==
    IF ~is_object(ajson) THEN Unexpected("expected_object", <<ClassName>>)
    ELSE LET s == JSONCONS_VARIADIC_FOR_EACH("JSONCONS_CTOR_GETTER_NAME_GET", c, 1, ajson, FallThrough(<<>>))
         IN  IF s.ret THEN s.res
             ELSE Expected([i \in 1..num_params(c) |->
                               JSONCONS_CTOR_GETTER_NAME_AS(c, i, s.inst[i])])

\* json_conv_traits<Json, ClassType>::try_as
try_as(c, ajson) ==
    CASE c.family = "MEMBER" -> JSONCONS_MEMBER_TRAITS_BASE_try_as(c, ajson)
      [] c.family = "MEMBER_NAME" -> JSONCONS_MEMBER_NAME_TRAITS_BASE_try_as(c, ajson)
      [] c.family = "CTOR_GETTER" -> JSONCONS_CTOR_GETTER_TRAITS_BASE_try_as(c, ajson)
      [] c.family = "CTOR_GETTER_NAME" -> JSONCONS_CTOR_GETTER_NAME_TRAITS_BASE_try_as(c, ajson)
      [] c.family = "GETTER_SETTER" -> JSONCONS_GETTER_SETTER_TRAITS_BASE_try_as(c, ajson)
      [] c.family = "GETTER_SETTER_NAME" ->
            JSONCONS_GETTER_SETTER_NAME_TRAITS_BASE_try_as(c, ajson)

-----------------------------------------------------------------------------
(* to_json: one macro expansion per declared field, each adding to ajson.  *)

\* A to_json step that treats every field as optional.
JSONCONS_TO_JSON_all_optional(c, i, class_instance, ajson) ==
    set_optional_json_member(c.types[i], i, class_instance[i], ajson)

JSONCONS_TO_JSON(c, i, class_instance, ajson) ==
    IF (i - 1) < c.num_mandatory
    THEN try_emplace(ajson, i, field_to_json(c.types[i], class_instance[i]))
    ELSE set_optional_json_member(c.types[i], i, class_instance[i], ajson)

JSONCONS_ALL_TO_JSON(c, i, class_instance, ajson) ==
    try_emplace(ajson, i, field_to_json(c.types[i], class_instance[i]))

JSONCONS_N_MEMBER_NAME_TO_JSON(c, i, class_instance, ajson) ==
    IF (i - 1) < c.num_mandatory
    THEN try_emplace(ajson, i, field_to_json(c.types[i], class_instance[i]))
    ELSE set_optional_json_member(c.types[i], i, class_instance[i], ajson)

JSONCONS_ALL_MEMBER_NAME_TO_JSON(c, i, class_instance, ajson) ==
    try_emplace(ajson, i, field_to_json(c.types[i], class_instance[i]))

JSONCONS_CTOR_GETTER_TO_JSON(c, i, class_instance, ajson) ==
    IF (i - 1) < c.num_mandatory
    THEN try_emplace(ajson, i, field_to_json(c.types[i], class_instance[i]))
    ELSE set_optional_json_member(c.types[i], i, class_instance[i], ajson)

JSONCONS_CTOR_GETTER_NAME_TO_JSON(c, i, class_instance, ajson) ==
    IF (i - 1) < c.num_mandatory
    THEN try_emplace(ajson, i, field_to_json(c.types[i], class_instance[i]))
    ELSE set_optional_json_member(c.types[i], i, class_instance[i], ajson)

JSONCONS_N_GETTER_SETTER_TO_JSON(c, i, class_instance, ajson) ==
    IF (i - 1) < c.num_mandatory
    THEN try_emplace(ajson, i, field_to_json(c.types[i], class_instance[i]))
    ELSE set_optional_json_member(c.types[i], i, class_instance[i], ajson)

JSONCONS_ALL_GETTER_SETTER_TO_JSON(c, i, class_instance, ajson) ==
    try_emplace(ajson, i, field_to_json(c.types[i], class_instance[i]))

JSONCONS_N_GETTER_SETTER_NAME_TO_JSON(c, i, class_instance, ajson) ==
    try_emplace(ajson, i, field_to_json(c.types[i], class_instance[i]))

JSONCONS_ALL_GETTER_SETTER_NAME_TO_JSON(c, i, class_instance, ajson) ==
    IF (i - 1) < c.num_mandatory
    THEN try_emplace(ajson, i, field_to_json(c.types[i], class_instance[i]))
    ELSE set_optional_json_member(c.types[i], i, class_instance[i], ajson)

\* The ToJson argument the JSONCONS_ALL_ / JSONCONS_N_ macro of each family
\* passes to its TRAITS_BASE macro.
ToJson(c, i, class_instance, ajson) ==
    CASE c.family = "MEMBER" /\ c.variant = "N" ->
            JSONCONS_TO_JSON(c, i, class_instance, ajson)
      [] c.family = "MEMBER" /\ c.variant = "ALL" ->
            JSONCONS_ALL_TO_JSON(c, i, class_instance, ajson)
      [] c.family = "MEMBER_NAME" /\ c.variant = "N" ->
            JSONCONS_N_MEMBER_NAME_TO_JSON(c, i, class_instance, ajson)
      [] c.family = "MEMBER_NAME" /\ c.variant = "ALL" ->
            JSONCONS_ALL_MEMBER_NAME_TO_JSON(c, i, class_instance, ajson)
      [] c.family = "CTOR_GETTER" ->
            JSONCONS_CTOR_GETTER_TO_JSON(c, i, class_instance, ajson)
      [] c.family = "CTOR_GETTER_NAME" ->
            JSONCONS_CTOR_GETTER_NAME_TO_JSON(c, i, class_instance, ajson)
      [] c.family = "GETTER_SETTER" /\ c.variant = "N" ->
            JSONCONS_N_GETTER_SETTER_TO_JSON(c, i, class_instance, ajson)
      [] c.family = "GETTER_SETTER" /\ c.variant = "ALL" ->
            JSONCONS_ALL_GETTER_SETTER_TO_JSON(c, i, class_instance, ajson)
      [] c.family = "GETTER_SETTER_NAME" /\ c.variant = "N" ->
            JSONCONS_N_GETTER_SETTER_NAME_TO_JSON(c, i, class_instance, ajson)
      [] c.family = "GETTER_SETTER_NAME" /\ c.variant = "ALL" ->
            JSONCONS_ALL_GETTER_SETTER_NAME_TO_JSON(c, i, class_instance, ajson)

RECURSIVE FOR_EACH_TO_JSON(_, _, _, _)
FOR_EACH_TO_JSON(c, i, class_instance, ajson) ==
    IF i > num_params(c) THEN ajson
    ELSE FOR_EACH_TO_JSON(c, i + 1, class_instance,
                          ToJson(c, i, class_instance, ajson))

\* json_conv_traits<Json, ClassType>::to_json
to_json(c, class_instance) ==
    FOR_EACH_TO_JSON(c, 1, class_instance, JObject(<<>>))

-----------------------------------------------------------------------------
(* encode_traits<ClassType>::try_encode: the streaming encoding.  The      *)
(* encoder receives begin_object(object_size), then one key event and one  *)
(* value event per emitted member, then end_object.  A member's value      *)
(* events are those of the document its field type converts to.            *)

try_encode_member(T, key, val, events) ==
    Append(events, [key |-> key, value |-> field_to_json(T, val)])

try_encode_optional_member(T, key, val, events) ==
    IF T = "plain"
    THEN Append(events, [key |-> key, value |-> field_to_json(T, val)])
    ELSE IF val.has
         THEN Append(events, [key |-> key, value |-> field_to_json(T, val)])
         ELSE events

is_optional_value_set(T, val) ==
    IF T = "plain" THEN TRUE ELSE val.has

\* A count step that counts every declared field.
JSONCONS_MEMBER_COUNT_every_field(c, i, val, object_size) == object_size + 1

\* The COUNT macros of the six families have the same text.
JSONCONS_MEMBER_COUNT(c, i, val, object_size) ==
    IF (i - 1) < c.num_mandatory
    THEN object_size + 1
    ELSE IF is_optional_value_set(c.types[i], val[i])
         THEN object_size + 1
         ELSE object_size

\* The ENCODE macros of the N_ variants and of the CTOR_GETTER families
\* have the same text.
JSONCONS_N_MEMBER_ENCODE(c, i, val, events) ==
    IF (i - 1) < c.num_mandatory
    THEN try_encode_member(c.types[i], i, val[i], events)
    ELSE try_encode_optional_member(c.types[i], i, val[i], events)

JSONCONS_ALL_MEMBER_ENCODE(c, i, val, events) ==
    try_encode_member(c.types[i], i, val[i], events)

\* The Encode argument each family's macro passes to its TRAITS_BASE macro.
Encode(c, i, val, events) ==
    IF c.family \in {"MEMBER", "MEMBER_NAME"} /\ c.variant = "ALL"
    THEN JSONCONS_ALL_MEMBER_ENCODE(c, i, val, events)
    ELSE JSONCONS_N_MEMBER_ENCODE(c, i, val, events)

RECURSIVE FOR_EACH_COUNT(_, _, _, _)
FOR_EACH_COUNT(c, i, val, object_size) ==
    IF i > num_params(c) THEN object_size
    ELSE FOR_EACH_COUNT(c, i + 1, val, JSONCONS_MEMBER_COUNT(c, i, val, object_size))

RECURSIVE FOR_EACH_ENCODE(_, _, _, _)
FOR_EACH_ENCODE(c, i, val, events) ==
    IF i > num_params(c) THEN events
    ELSE FOR_EACH_ENCODE(c, i + 1, val, Encode(c, i, val, events))

\* begin_object(object_size); the members; end_object
try_encode(c, val) ==
    [object_size |-> FOR_EACH_COUNT(c, 1, val, 0),
     members |-> FOR_EACH_ENCODE(c, 1, val, <<>>)]

-----------------------------------------------------------------------------
(* Documents handed to is and try_as: objects whose members appear in      *)
(* declaration order, and values that are not objects.                     *)

MemberValues == {JNull, JInt(1), JStr("foo")}

MISSING == [kind |-> "missing", n |-> 0, s |-> "", members |-> <<>>]

RECURSIVE MembersOf(_, _)
MembersOf(f, i) ==
    IF i > Len(f) THEN <<>>
    ELSE IF f[i] = MISSING THEN MembersOf(f, i + 1)
    ELSE <<[key |-> i, value |-> f[i]]>> \o MembersOf(f, i + 1)

Documents(c) ==
    {JObject(MembersOf(f, 1)) : f \in [1..num_params(c) -> MemberValues \cup {MISSING}]}
        \cup {JNull, JInt(1)}

-----------------------------------------------------------------------------
(* A behaviour fixes one mapping, applies one conversion to a fresh         *)
(* document or instance, and may then apply the converse conversion to     *)
(* the result.                                                             *)

Init ==
    /\ op = "none"
    /\ cls \in Classes
    /\ arg = <<>>
    /\ out = <<>>
    /\ orig = <<>>

\* j.is<ClassType>()
Is ==
    /\ op = "none"
    /\ \E j \in Documents(cls) :
        /\ op' = "is"
        /\ arg' = j
        /\ out' = is(cls, j)
    /\ UNCHANGED <<cls, orig>>

\* j.try_as<ClassType>()
TryAs ==
    /\ op = "none"
    /\ \E j \in Documents(cls) :
        /\ op' = "try_as"
        /\ arg' = j
        /\ out' = try_as(cls, j)
    /\ UNCHANGED <<cls, orig>>

\* Json(val)
ToJsonOp ==
    /\ op = "none"
    /\ \E v \in Instances(cls) :
        /\ op' = "to_json"
        /\ arg' = v
        /\ out' = to_json(cls, v)
    /\ UNCHANGED <<cls, orig>>

\* Json(val).try_as<ClassType>()
TryAsOfEncoded ==
    /\ op = "to_json"
    /\ op' = "decode_encoded"
    /\ arg' = out
    /\ out' = try_as(cls, out)
    /\ orig' = arg
    /\ UNCHANGED cls

\* Json(j.as<ClassType>())
ToJsonOfDecoded ==
    /\ op = "try_as"
    /\ out.ok
    /\ op' = "encode_decoded"
    /\ arg' = out.value
    /\ out' = to_json(cls, out.value)
    /\ orig' = arg
    /\ UNCHANGED cls

\* encode_traits<ClassType>::try_encode(val, encoder, ec)
TryEncode ==
    /\ op = "none"
    /\ \E v \in Instances(cls) :
        /\ op' = "try_encode"
        /\ arg' = v
        /\ out' = try_encode(cls, v)
    /\ UNCHANGED <<cls, orig>>

Next ==
    \/ Is
    \/ TryAs
    \/ ToJsonOp
    \/ TryAsOfEncoded
    \/ ToJsonOfDecoded
    \/ TryEncode

Spec == Init /\ [][Next]_vars

-----------------------------------------------------------------------------
(* Properties of the aggregate mappings.                                   *)

MemberValue(j, i) == j.members[find(j, i)].value

\* Member i of j is present and converts to the type of field i.
Convertible(c, j, i) ==
    contains(j, i) /\ field_try_as(c.types[i], MemberValue(j, i)).ok

\* Member i of j is present and does not convert to the type of field i.
Unconvertible(c, j, i) ==
    contains(j, i) /\ ~field_try_as(c.types[i], MemberValue(j, i)).ok

MandatoryFields(c) == 1..c.num_mandatory

OptionalFields(c) == (c.num_mandatory + 1)..num_params(c)

\* j lacks mandatory member i and nothing else is wrong with j.
LacksOnly(c, j, i) ==
    /\ is_object(j)
    /\ i \in MandatoryFields(c)
    /\ ~contains(j, i)
    /\ \A k \in MandatoryFields(c) \ {i} : contains(j, k)
    /\ \A k \in 1..num_params(c) : ~Unconvertible(c, j, k)

\* C1: in every family and variant, try_as on an object that lacks exactly
\* one mandatory member fails with missing_required_member, and the
\* context of the error is "Class: field" for the missing field.
C1_MissingMemberNamesField ==
    op = "try_as" =>
        \A i \in 1..num_params(cls) :
            LacksOnly(cls, arg, i) =>
                out = Unexpected("missing_required_member", <<ClassName, i>>)

\* j holds every mandatory member, each convertible, and no optional member.
OnlyMandatory(c, j) ==
    /\ is_object(j)
    /\ \A i \in MandatoryFields(c) : Convertible(c, j, i)
    /\ \A i \in OptionalFields(c) : ~contains(j, i)

\* C2: with M mandatory fields followed by optional fields, try_as on an
\* object holding all M mandatory members and no optional member succeeds,
\* and every optional field of the result holds its default value.
C2_OptionalFieldsDefaulted ==
    (op = "try_as" /\ cls.variant = "N" /\ OnlyMandatory(cls, arg)) =>
        /\ out.ok
        /\ \A i \in OptionalFields(cls) : out.value[i] = DefaultValue(cls.types[i])

C2_Witness ==
    /\ op = "try_as"
    /\ cls.variant = "N"
    /\ cls.num_mandatory >= 1
    /\ cls.num_mandatory < num_params(cls)
    /\ OnlyMandatory(cls, arg)
    /\ out.ok
    /\ \A i \in OptionalFields(cls) : out.value[i] = DefaultValue(cls.types[i])

\* C3: on encoding, a field at or after the mandatory/optional split is in
\* the output object if and only if it is set: a wrapper-typed field only
\* when it holds a value, a plain-typed field always.
C3_OptionalEmittedIffSet ==
    op = "to_json" =>
        \A i \in OptionalFields(cls) :
            contains(out, i) <=> (cls.types[i] = "plain" \/ arg[i].has)

\* C4: on encoding, every mandatory field is in the output object; when its
\* wrapper holds no value the member is null, never omitted.
C4_MandatoryAlwaysEmitted ==
    op = "to_json" =>
        \A i \in MandatoryFields(cls) :
            /\ contains(out, i)
            /\ ~arg[i].has => MemberValue(out, i) = JNull

C4_Witness ==
    /\ op = "to_json"
    /\ \E i \in MandatoryFields(cls) :
        /\ cls.types[i] # "plain"
        /\ ~arg[i].has
        /\ contains(out, i)
        /\ MemberValue(out, i) = JNull

\* C5: in every family, try_as on an object in which an optional member is
\* present but does not convert to the field's type fails; only a missing
\* optional member is defaulted silently.
C5_OptionalErrorNotDiscarded ==
    (op = "try_as" /\ is_object(arg)) =>
        ((\E i \in OptionalFields(cls) : Unconvertible(cls, arg, i)) => ~out.ok)

\* C6: for the same field names, values and mandatory/optional split,
\* to_json gives the same object whichever family declares the mapping.
C6_FamiliesEncodeAlike ==
    op = "to_json" =>
        \A f \in Families : to_json([cls EXCEPT !.family = f], arg) = out

EveryMemberHoldsValue(c, j) ==
    \A i \in 1..num_params(c) : Convertible(c, j, i) /\ ~is_null(MemberValue(j, i))

FirstUnconvertible(c, j) ==
    CHOOSE i \in 1..num_params(c) :
        /\ Unconvertible(c, j, i)
        /\ \A k \in 1..(i - 1) : ~Unconvertible(c, j, k)

\* C8: try_as on an object holding members that do not convert to their
\* field types fails with conversion_failed, and the context of the error
\* names the first such member in declaration order.
C8_FirstUnconvertibleNamed ==
    (/\ op = "try_as"
     /\ is_object(arg)
     /\ \A i \in MandatoryFields(cls) : contains(arg, i)
     /\ \E i \in 1..num_params(cls) : Unconvertible(cls, arg, i)) =>
        out = Unexpected("conversion_failed", <<ClassName, FirstUnconvertible(cls, arg)>>)

Names(members) == [k \in 1..Len(members) |-> members[k].key]

\* C29: the tree encoding and the streaming encoding of an instance name the
\* same members in the same order, so an unset optional field is omitted by
\* both or emitted by both.
C29_TreeAndStreamAgree ==
    op = "try_encode" => Names(out.members) = Names(to_json(cls, arg).members)

-----------------------------------------------------------------------------
(* Enumeration mappings.  A mapping is the table reflect_type_properties   *)
(* ::values(): pairs (first, second) of an enumerator and its name, in     *)
(* declaration order.  JSONCONS_ENUM_TRAITS names each enumerator by its   *)
(* identifier, which is never empty; JSONCONS_ENUM_NAME_TRAITS takes any   *)
(* string.  enum_type() is the enumerator 0.                               *)

\* Largest number of pairs of an enumeration mapping.
MaxEnumerators == 2

Enumerators == {0, 1, 2}

Identifiers == {"a", "b"}

EnumKinds == {"JSONCONS_ENUM_TRAITS", "JSONCONS_ENUM_NAME_TRAITS"}

EnumName == "EnumType"

EnumTables(names) ==
    UNION {[1..n -> [first : Enumerators, second : names]] : n \in 1..MaxEnumerators}

EnumClasses ==
    {[kind |-> "JSONCONS_ENUM_TRAITS", table |-> t] : t \in EnumTables(Identifiers)}
        \cup {[kind |-> "JSONCONS_ENUM_NAME_TRAITS", table |-> t] :
                 t \in EnumTables(Identifiers \cup {""})}

EnumDocuments == {JStr(str) : str \in Identifiers \cup {"", "c"}} \cup {JNull, JInt(1)}

\* std::find_if over the table: the first index that matches, 0 for last.
find_if_first(t, e) ==
    IF \E k \in 1..Len(t) : t[k].first = e
    THEN CHOOSE k \in 1..Len(t) :
            t[k].first = e /\ \A k2 \in 1..(k - 1) : t[k2].first # e
    ELSE 0

find_if_second(t, str) ==
    IF \E k \in 1..Len(t) : t[k].second = str
    THEN CHOOSE k \in 1..Len(t) :
            t[k].second = str /\ \A k2 \in 1..(k - 1) : t[k2].second # str
    ELSE 0

\* ajson.try_as_string_view() has a value
is_string(j) == j.kind = "string"

JSONCONS_ENUM_TRAITS_BASE_is(t, ajson) ==
    IF ~is_string(ajson) THEN FALSE
    ELSE IF ajson.s = "" /\ find_if_first(t, 0) = 0 THEN TRUE
    ELSE find_if_second(t, ajson.s) # 0

JSONCONS_ENUM_TRAITS_BASE_try_as(t, ajson) ==
    IF ~JSONCONS_ENUM_TRAITS_BASE_is(t, ajson)
    THEN Unexpected("conversion_failed", <<EnumName>>)
    ELSE IF ~is_string(ajson) THEN Unexpected("conversion_failed", <<EnumName>>)
    ELSE IF ajson.s = "" /\ find_if_first(t, 0) = 0 THEN Expected(0)
    ELSE IF find_if_second(t, ajson.s) = 0
    THEN IF ajson.s = "" THEN Expected(0)
         ELSE Unexpected("conversion_failed", <<EnumName>>)
    ELSE Expected(t[find_if_second(t, ajson.s)].first)

JSONCONS_ENUM_NAME_TRAITS_is(t, ajson) ==
    IF ~is_string(ajson) THEN FALSE
    ELSE IF ajson.s = "" /\ find_if_first(t, 0) = 0 THEN TRUE
    ELSE find_if_second(t, ajson.s) # 0

JSONCONS_ENUM_NAME_TRAITS_try_as(t, ajson) ==
    IF ~is_string(ajson) THEN Unexpected("conversion_failed", <<EnumName>>)
    ELSE IF ajson.s = "" /\ find_if_first(t, 0) = 0 THEN Expected(0)
    ELSE IF find_if_second(t, ajson.s) = 0
    THEN IF ajson.s = "" THEN Expected(0)
         ELSE Unexpected("conversion_failed", <<EnumName>>)
    ELSE Expected(t[find_if_second(t, ajson.s)].first)

\* The call leaves by JSONCONS_THROW(conv_error(ec, ...)) instead of
\* returning a document.
conv_error(ec) == [kind |-> "conv_error", n |-> 0, s |-> ec, members |-> <<>>]

JSONCONS_ENUM_TRAITS_BASE_to_json(t, class_instance) ==
    IF find_if_first(t, class_instance) = 0
    THEN IF class_instance = 0 THEN JStr("")
         ELSE conv_error("conversion_failed")
    ELSE JStr(t[find_if_first(t, class_instance)].second)

JSONCONS_ENUM_NAME_TRAITS_to_json(t, class_instance) ==
    IF find_if_first(t, class_instance) = 0
    THEN IF class_instance = 0 THEN JStr("")
         ELSE conv_error("conversion_failed")
    ELSE JStr(t[find_if_first(t, class_instance)].second)

enum_to_json(c, class_instance) ==
    IF c.kind = "JSONCONS_ENUM_TRAITS"
    THEN JSONCONS_ENUM_TRAITS_BASE_to_json(c.table, class_instance)
    ELSE JSONCONS_ENUM_NAME_TRAITS_to_json(c.table, class_instance)

enum_is(c, ajson) ==
    IF c.kind = "JSONCONS_ENUM_TRAITS"
    THEN JSONCONS_ENUM_TRAITS_BASE_is(c.table, ajson)
    ELSE JSONCONS_ENUM_NAME_TRAITS_is(c.table, ajson)

enum_try_as(c, ajson) ==
    IF c.kind = "JSONCONS_ENUM_TRAITS"
    THEN JSONCONS_ENUM_TRAITS_BASE_try_as(c.table, ajson)
    ELSE JSONCONS_ENUM_NAME_TRAITS_try_as(c.table, ajson)

EnumInit ==
    /\ op = "none"
    /\ cls \in EnumClasses
    /\ arg = <<>>
    /\ out = <<>>
    /\ orig = <<>>

\* j.is<EnumType>()
EnumIs ==
    /\ op = "none"
    /\ \E j \in EnumDocuments :
        /\ op' = "enum_is"
        /\ arg' = j
        /\ out' = enum_is(cls, j)
    /\ UNCHANGED <<cls, orig>>

\* j.try_as<EnumType>()
EnumTryAs ==
    /\ op = "none"
    /\ \E j \in EnumDocuments :
        /\ op' = "enum_try_as"
        /\ arg' = j
        /\ out' = enum_try_as(cls, j)
    /\ UNCHANGED <<cls, orig>>

\* Json(e)
EnumToJson ==
    /\ op = "none"
    /\ \E e \in Enumerators :
        /\ op' = "enum_to_json"
        /\ arg' = e
        /\ out' = enum_to_json(cls, e)
    /\ UNCHANGED <<cls, orig>>

EnumNext ==
    \/ EnumIs
    \/ EnumTryAs
    \/ EnumToJson

EnumSpec == EnumInit /\ [][EnumNext]_vars

\* Some pair of the table carries the name str.
Mapped(t, str) == \E k \in 1..Len(t) : t[k].second = str

\* C10: under both enumeration mappings, and for is as for try_as, the
\* empty string is accepted, and decodes to the zero-valued enumerator
\* when no enumerator is mapped to the empty string; any other string
\* that is no mapped name is rejected, by try_as with conversion_failed.
C10_EmptyStringAndUnmapped ==
    /\ (op = "enum_try_as" /\ is_string(arg)) =>
        /\ (arg.s = "" /\ ~Mapped(cls.table, "")) => out = Expected(0)
        /\ (arg.s # "" /\ ~Mapped(cls.table, arg.s)) =>
                out = Unexpected("conversion_failed", <<EnumName>>)
        /\ out.ok <=> enum_is(cls, arg)
    /\ (op = "enum_is" /\ is_string(arg)) =>
        /\ (arg.s = "" /\ ~Mapped(cls.table, "")) => out = TRUE
        /\ (arg.s # "" /\ ~Mapped(cls.table, arg.s)) => out = FALSE

\* C11: for every value e of the enumeration type, to_json(e) returns a
\* string and never throws, and try_as of that string yields e.
C11_EnumRoundTrip ==
    op = "enum_to_json" =>
        /\ is_string(out)
        /\ enum_try_as(cls, out) = Expected(arg)

-----------------------------------------------------------------------------
(* Polymorphic mappings: JSONCONS_POLYMORPHIC_TRAITS(BaseClass, D1, D2, ..) *)
(* for std::shared_ptr<BaseClass> and std::unique_ptr<BaseClass>.  Each    *)
(* derived class is an aggregate mapping of its own; field i of a derived  *)
(* class is declared under the member name names[i].  The derived classes  *)
(* are siblings: dynamic_cast<Dk*> succeeds exactly on an instance of Dk.  *)

\* Largest number of derived classes of a polymorphic mapping.
MaxDerived == 2

MemberNames == {1, 2, 3}

DerivedFieldCounts == {1, 2}

DerivedClassesOf(n) ==
    {[c |-> [family |-> "CTOR_GETTER",
             variant |-> IF m = n THEN "ALL" ELSE "N",
             types |-> [i \in 1..n |-> "plain"],
             num_mandatory |-> m],
      names |-> nm] :
        m \in 0..n,
        nm \in {f \in [1..n -> MemberNames] : \A i, k \in 1..n : i < k => f[i] < f[k]}}

DerivedClasses == UNION {DerivedClassesOf(n) : n \in DerivedFieldCounts}

PolymorphicClasses ==
    {[ptr |-> p, derived |-> ds] :
        p \in {"shared_ptr", "unique_ptr"},
        ds \in UNION {[1..n -> DerivedClasses] : n \in 1..MaxDerived}}

\* The members of ajson that derived class d declares, keyed by field.
RECURSIVE DeclaredMembers(_, _, _)
DeclaredMembers(d, ajson, i) ==
    IF i > Len(d.names) THEN <<>>
    ELSE IF contains(ajson, d.names[i])
    THEN <<[key |-> i, value |-> ajson.members[find(ajson, d.names[i])].value]>>
            \o DeclaredMembers(d, ajson, i + 1)
    ELSE DeclaredMembers(d, ajson, i + 1)

\* An object of derived class d, its members keyed by their declared names.
NamedMembers(d, ajson) ==
    JObject([k \in 1..Len(ajson.members) |->
                [key |-> d.names[ajson.members[k].key],
                 value |-> ajson.members[k].value]])

\* ajson.is<DerivedClass>()
derived_is(d, ajson) ==
    is(d.c, IF is_object(ajson) THEN JObject(DeclaredMembers(d, ajson, 1))
            ELSE ajson)

\* ajson.try_as<DerivedClass>(); the derived classes are mapped with
\* JSONCONS_N_CTOR_GETTER_TRAITS or JSONCONS_ALL_CTOR_GETTER_TRAITS.
derived_try_as(d, ajson) ==
    JSONCONS_CTOR_GETTER_TRAITS_BASE_try_as(d.c,
        IF is_object(ajson) THEN JObject(DeclaredMembers(d, ajson, 1))
        ELSE ajson)

\* Json(*p) for p of type DerivedClass*
derived_to_json(d, fields) == NamedMembers(d, to_json(d.c, fields))

NullPtr == [null |-> TRUE, type |-> 0, fields |-> <<>>]

\* A pointer to an instance of the derived class declared k-th; type 0 is a
\* class that the mapping does not declare.
Pointee(k, fields) == [null |-> FALSE, type |-> k, fields |-> fields]

\* The expansions below are those of one derived class, the k-th declared;
\* rest is what the code after the expansion evaluates to, reached when the
\* expansion does not return.

\* if (ajson.template is<DerivedClass>()) return true;
JSONCONS_POLYMORPHIC_IS(is_derived, rest) ==
    IF is_derived THEN TRUE ELSE rest

\* A variant that lets a later derived class override an earlier match.
JSONCONS_POLYMORPHIC_AS_SHARED_PTR_last_match(k, result, rest) ==
    IF rest.value.null /\ result.ok THEN Expected(Pointee(k, result.value))
    ELSE rest

\* auto result = ajson.template try_as<DerivedClass>();
\* if (result) return result_type(std::make_shared<DerivedClass>(*result));
JSONCONS_POLYMORPHIC_AS_SHARED_PTR(k, result, rest) ==
    IF result.ok THEN Expected(Pointee(k, result.value)) ELSE rest

\* auto result = ajson.template try_as<DerivedClass>();
\* if (result) return result_type(jsoncons::make_unique<DerivedClass>(*result));
JSONCONS_POLYMORPHIC_AS_UNIQUE_PTR(k, result, rest) ==
    IF result.ok THEN Expected(Pointee(k, result.value)) ELSE rest

\* A variant whose downcast check never accepts the first declared class.
JSONCONS_POLYMORPHIC_TO_JSON_skip_first(k, ptr, encoded, rest) ==
    IF ptr.type = k /\ k > 1 THEN encoded ELSE rest

\* if (DerivedClass* p = dynamic_cast<DerivedClass*>(ptr.get())) return Json(*p);
JSONCONS_POLYMORPHIC_TO_JSON(k, ptr, encoded, rest) ==
    IF ptr.type = k THEN encoded ELSE rest

\* JSONCONS_VARIADIC_FOR_EACH over the derived classes from the k-th on,
\* followed by the statement after the loop.
RECURSIVE POLYMORPHIC_FOR_EACH_IS(_, _, _)
POLYMORPHIC_FOR_EACH_IS(ds, k, ajson) ==
    IF k > Len(ds) THEN FALSE
    ELSE JSONCONS_POLYMORPHIC_IS(derived_is(ds[k], ajson),
                                 POLYMORPHIC_FOR_EACH_IS(ds, k + 1, ajson))

RECURSIVE POLYMORPHIC_FOR_EACH_AS(_, _, _, _, _)
POLYMORPHIC_FOR_EACH_AS(p, ds, k, ajson, result) ==
    IF k > Len(ds) THEN Expected(NullPtr)
    ELSE IF p = "shared_ptr"
    THEN JSONCONS_POLYMORPHIC_AS_SHARED_PTR(k, result[k],
            POLYMORPHIC_FOR_EACH_AS(p, ds, k + 1, ajson, result))
    ELSE JSONCONS_POLYMORPHIC_AS_UNIQUE_PTR(k, result[k],
            POLYMORPHIC_FOR_EACH_AS(p, ds, k + 1, ajson, result))

RECURSIVE POLYMORPHIC_FOR_EACH_TO_JSON(_, _, _)
POLYMORPHIC_FOR_EACH_TO_JSON(ds, k, ptr) ==
    IF k > Len(ds) THEN JNull
    ELSE JSONCONS_POLYMORPHIC_TO_JSON(k, ptr,
            derived_to_json(ds[k], ptr.fields),
            POLYMORPHIC_FOR_EACH_TO_JSON(ds, k + 1, ptr))

\* is of std::shared_ptr<BaseClass> and of std::unique_ptr<BaseClass>
polymorphic_is(c, ajson) ==
    IF ~is_object(ajson) THEN FALSE
    ELSE POLYMORPHIC_FOR_EACH_IS(c.derived, 1, ajson)

\* try_as of std::shared_ptr<BaseClass> and of std::unique_ptr<BaseClass>
polymorphic_try_as(c, ajson) ==
    IF ~is_object(ajson) THEN Expected(NullPtr)
    ELSE POLYMORPHIC_FOR_EACH_AS(c.ptr, c.derived, 1, ajson,
            [k \in 1..Len(c.derived) |-> derived_try_as(c.derived[k], ajson)])

\* to_json of std::shared_ptr<BaseClass> and of std::unique_ptr<BaseClass>
polymorphic_to_json(c, ptr) ==
    IF ptr.null THEN JNull
    ELSE POLYMORPHIC_FOR_EACH_TO_JSON(c.derived, 1, ptr)

PolymorphicDocuments ==
    {JObject(MembersOf(f, 1)) : f \in [MemberNames -> {MISSING, JInt(1), JStr("foo")}]}
        \cup {JNull}

Pointers(c) ==
    {NullPtr, Pointee(0, <<>>)}
        \cup UNION {{Pointee(k, v) : v \in Instances(c.derived[k].c)} :
                       k \in 1..Len(c.derived)}

PolymorphicInit ==
    /\ op = "none"
    /\ cls \in PolymorphicClasses
    /\ arg = <<>>
    /\ out = <<>>
    /\ orig = <<>>

\* j.is<std::shared_ptr<BaseClass>>()
PolymorphicIs ==
    /\ op = "none"
    /\ \E j \in PolymorphicDocuments :
        /\ op' = "polymorphic_is"
        /\ arg' = j
        /\ out' = polymorphic_is(cls, j)
    /\ UNCHANGED <<cls, orig>>

\* j.try_as<std::shared_ptr<BaseClass>>()
PolymorphicTryAs ==
    /\ op = "none"
    /\ \E j \in PolymorphicDocuments :
        /\ op' = "polymorphic_try_as"
        /\ arg' = j
        /\ out' = polymorphic_try_as(cls, j)
    /\ UNCHANGED <<cls, orig>>

\* Json(ptr)
PolymorphicToJson ==
    /\ op = "none"
    /\ \E ptr \in Pointers(cls) :
        /\ op' = "polymorphic_to_json"
        /\ arg' = ptr
        /\ out' = polymorphic_to_json(cls, ptr)
    /\ UNCHANGED <<cls, orig>>

\* Json(ptr).try_as<std::shared_ptr<BaseClass>>()
PolymorphicTryAsOfEncoded ==
    /\ op = "polymorphic_to_json"
    /\ op' = "polymorphic_decode_encoded"
    /\ arg' = out
    /\ out' = polymorphic_try_as(cls, out)
    /\ orig' = arg
    /\ UNCHANGED cls

PolymorphicNext ==
    \/ PolymorphicIs
    \/ PolymorphicTryAs
    \/ PolymorphicToJson
    \/ PolymorphicTryAsOfEncoded

PolymorphicSpec == PolymorphicInit /\ [][PolymorphicNext]_vars

\* ---- Properties of the polymorphic mapping ----

\* try_as of the derived class declared k-th succeeds on ajson.
Matches(k, ajson) == derived_try_as(cls.derived[k], ajson).ok

DeclaredIndices == 1..Len(cls.derived)

\* C12: decoding into a base-class pointer always succeeds; the result
\* points to an instance of the first derived class, in declared order,
\* whose try_as succeeds on the input, holding the value that try_as
\* produced; it is the null pointer exactly when no declared derived class
\* matches; is answers whether some declared derived class accepts.
C12_FirstDerivedDecoded ==
    /\ op = "polymorphic_try_as" =>
        /\ out.ok
        /\ out.value.null <=> \A k \in DeclaredIndices : ~Matches(k, arg)
        /\ \A k \in DeclaredIndices :
            (Matches(k, arg) /\ \A k2 \in 1..(k - 1) : ~Matches(k2, arg))
                => out.value = Pointee(k, derived_try_as(cls.derived[k], arg).value)
    /\ op = "polymorphic_is" =>
        (out <=> \E k \in DeclaredIndices : derived_is(cls.derived[k], arg))

\* Two declared derived classes both match the input and the earlier one
\* was chosen.
C12_Witness ==
    /\ op = "polymorphic_try_as"
    /\ Len(cls.derived) = 2
    /\ Matches(1, arg)
    /\ Matches(2, arg)
    /\ cls.derived[1] # cls.derived[2]
    /\ out.value.type = 1

\* The names of the mandatory fields and of all fields of a derived class.
MandatoryNames(d) == {d.names[i] : i \in 1..d.c.num_mandatory}

FieldNames(d) == {d.names[i] : i \in 1..Len(d.names)}

NonOverlappingMandatory ==
    \A k, k2 \in DeclaredIndices :
        k # k2 => MandatoryNames(cls.derived[k]) \cap MandatoryNames(cls.derived[k2]) = {}

\* Every derived class has a mandatory field that no class declared after
\* it has as a field.
EarlierClassesDistinguished ==
    \A k, k2 \in DeclaredIndices :
        k2 < k => MandatoryNames(cls.derived[k2]) \ FieldNames(cls.derived[k]) # {}

EncodesFirstDowncast ==
    op = "polymorphic_to_json" =>
        /\ arg.null => out = JNull
        /\ \A k \in DeclaredIndices :
            (~arg.null /\ arg.type = k)
                => out = derived_to_json(cls.derived[k], arg.fields)

-----------------------------------------------------------------------------
(* The entries of json_conv_traits.hpp for pairs, tuples, fixed-size       *)
(* arrays, variants, maps and the nullable wrappers.                       *)

\* Largest number of elements of a tuple or fixed-size array type.
MaxArity == 2

JArray(es) == [kind |-> "array", n |-> 0, s |-> "", members |-> es]

is_array(j) == j.kind = "array"

\* basic_json::size(): the number of elements or members, 0 for a scalar.
size(j) == IF is_array(j) \/ is_object(j) THEN Len(j.members) ELSE 0

\* j[i] refers to an element when j is an array with more than i elements,
\* and raises otherwise.
in_range(j, i) == is_array(j) /\ i < Len(j.members)

at(j, i) == j.members[i + 1]

\* The outcome of a conversion that raised an exception.
Throw(what) == [ok |-> FALSE, value |-> <<>>, ec |-> what, arg |-> <<"throw">>]

\* j.is<T>() for the element types.
field_is(T, j) ==
    IF T = "plain" THEN j.kind = "int" ELSE is_null(j) \/ j.kind = "int"

\* A native type: entry names the json_conv_traits specialisation, types
\* the element types (the mapped type of a map), N the size of a fixed-size
\* array, alts the alternatives of a variant.
Entry(e, types, N, alts) == [entry |-> e, types |-> types, N |-> N, alts |-> alts]

ElementTypes == {"plain", "optional"}

\* ---- std::pair<T1,T2> ----

pair_is(c, j) == is_array(j) /\ size(j) = 2

pair_try_as(c, j) ==
    IF ~is_array(j) \/ size(j) # 2 THEN Unexpected("not_pair", <<>>)
    ELSE IF ~field_try_as(c.types[1], at(j, 0)).ok
    THEN Unexpected(field_try_as(c.types[1], at(j, 0)).ec, <<>>)
    ELSE IF ~field_try_as(c.types[2], at(j, 1)).ok
    THEN Unexpected(field_try_as(c.types[2], at(j, 1)).ec, <<>>)
    ELSE Expected(<<field_try_as(c.types[1], at(j, 0)).value,
                    field_try_as(c.types[2], at(j, 1)).value>>)

pair_to_json(c, val) ==
    JArray(<<field_to_json(c.types[1], val[1]), field_to_json(c.types[2], val[2])>>)

\* ---- std::tuple<E...> ----

\* What a call of is comes to: the value returned, or an exception raised
\* inside the noexcept function.
IsResult(value, thrown) == [value |-> value, thrown |-> thrown]

\* json_tuple_helper<Pos, Size>::is; element Size-Pos is examined, and the
\* helper for Pos = 0 ends the recursion.
RECURSIVE json_tuple_helper_is(_, _, _)
json_tuple_helper_is(c, Pos, j) ==
    IF Pos = 0 THEN IsResult(TRUE, FALSE)
    ELSE IF ~in_range(j, Len(c.types) - Pos) THEN IsResult(FALSE, TRUE)
    ELSE IF field_is(c.types[Len(c.types) - Pos + 1], at(j, Len(c.types) - Pos))
    THEN json_tuple_helper_is(c, Pos - 1, j)
    ELSE IsResult(FALSE, FALSE)

\* json_tuple_helper<Pos, Size>::try_as; st holds the tuple filled so far
\* and the error code.
TupleState(tuple, ec, thrown) == [tuple |-> tuple, ec |-> ec, thrown |-> thrown]

RECURSIVE json_tuple_helper_try_as(_, _, _, _)
json_tuple_helper_try_as(c, Pos, tuple, j) ==
    IF Pos = 0 THEN TupleState(tuple, "", FALSE)
    ELSE IF ~in_range(j, Len(c.types) - Pos) THEN TupleState(tuple, "out_of_range", TRUE)
    ELSE IF ~field_try_as(c.types[Len(c.types) - Pos + 1], at(j, Len(c.types) - Pos)).ok
    THEN TupleState(tuple,
            field_try_as(c.types[Len(c.types) - Pos + 1], at(j, Len(c.types) - Pos)).ec,
            FALSE)
    ELSE json_tuple_helper_try_as(c, Pos - 1,
            Append(tuple,
                field_try_as(c.types[Len(c.types) - Pos + 1], at(j, Len(c.types) - Pos)).value),
            j)

tuple_is(c, j) == json_tuple_helper_is(c, Len(c.types), j)

\* The statements of try_as after helper::try_as has returned st.
tuple_result(st) ==
    IF st.thrown THEN Throw(st.ec)
    ELSE IF st.ec # "" THEN Unexpected(st.ec, <<>>)
    ELSE Expected(st.tuple)

tuple_try_as(c, j) ==
    tuple_result(json_tuple_helper_try_as(c, Len(c.types), <<>>, j))

tuple_to_json(c, val) ==
    JArray([i \in 1..Len(c.types) |-> field_to_json(c.types[i], val[i])])

\* ---- std::array<E,N> ----

\* A fixed-size array entry that pads a shorter source and truncates a
\* longer one.
array_try_as_resizes(c, j) ==
    IF \E i \in 0..(c.N - 1) : in_range(j, i) /\ ~field_try_as(c.types[1], at(j, i)).ok
    THEN Unexpected("not_array", <<>>)
    ELSE Expected([i \in 1..c.N |->
            IF in_range(j, i - 1) THEN field_try_as(c.types[1], at(j, i - 1)).value
            ELSE DefaultValue(c.types[1])])

array_is(c, j) ==
    /\ is_array(j)
    /\ size(j) = c.N
    /\ \A i \in 0..(size(j) - 1) : field_is(c.types[1], at(j, i))

array_try_as(c, j) ==
    IF size(j) # c.N THEN Unexpected("not_array", <<>>)
    ELSE IF \E i \in 0..(c.N - 1) : ~field_try_as(c.types[1], at(j, i)).ok
    THEN Unexpected("not_array", <<>>)
    ELSE Expected([i \in 1..c.N |-> field_try_as(c.types[1], at(j, i - 1)).value])

array_to_json(c, val) ==
    JArray([i \in 1..c.N |-> field_to_json(c.types[1], val[i])])

\* ---- containers built from a JSON array: back-insertable (std::vector),
\* ---- insertable (std::set) and front-insertable (std::forward_list) ----

Containers == {"back_insertable", "insertable", "front_insertable"}

\* The three entries share the text of is and of to_json.
container_is(c, j) ==
    /\ is_array(j)
    /\ \A i \in 0..(size(j) - 1) : field_is(c.types[1], at(j, i))

RECURSIVE back_insertable_items(_, _, _, _)
back_insertable_items(c, j, i, result) ==
    IF i >= size(j) THEN Expected(result)
    ELSE IF ~field_try_as(c.types[1], at(j, i)).ok
    THEN Unexpected(field_try_as(c.types[1], at(j, i)).ec,
                    field_try_as(c.types[1], at(j, i)).arg)
    ELSE back_insertable_items(c, j, i + 1,
            Append(result, field_try_as(c.types[1], at(j, i)).value))

back_insertable_try_as(c, j) ==
    IF ~is_array(j) THEN Unexpected("not_vector", <<>>)
    ELSE back_insertable_items(c, j, 0, <<>>)

RECURSIVE insertable_items(_, _, _, _)
insertable_items(c, j, i, result) ==
    IF i >= size(j) THEN Expected(result)
    ELSE IF ~field_try_as(c.types[1], at(j, i)).ok
    THEN Unexpected("not_vector", <<>>)
    ELSE insertable_items(c, j, i + 1,
            result \cup {field_try_as(c.types[1], at(j, i)).value})

insertable_try_as(c, j) ==
    IF is_array(j) THEN insertable_items(c, j, 0, {})
    ELSE Unexpected("not_vector", <<>>)

\* A push_front that adds at the back.
push_front_at_back(result, v) == Append(result, v)

push_front(result, v) == <<v>> \o result

\* it runs from rbegin() to rend(): from the last element to the first.
RECURSIVE front_insertable_items(_, _, _, _)
front_insertable_items(c, j, it, result) ==
    IF it < 0 THEN Expected(result)
    ELSE IF ~field_try_as(c.types[1], at(j, it)).ok
    THEN Unexpected("not_vector", <<>>)
    ELSE front_insertable_items(c, j, it - 1,
            push_front(result, field_try_as(c.types[1], at(j, it)).value))

front_insertable_try_as(c, j) ==
    IF is_array(j) THEN front_insertable_items(c, j, size(j) - 1, <<>>)
    ELSE Unexpected("not_vector", <<>>)

container_to_json(c, val) ==
    JArray([i \in 1..Len(val) |-> field_to_json(c.types[1], val[i])])

\* ---- std::variant<VariantTypes...> ----

\* j.is<T>(), j.try_as<T>() and Json(value) for an alternative T, which is
\* an element type or a pair.
alt_is(a, j) ==
    IF a.entry = "pair" THEN pair_is(a, j) ELSE field_is(a.entry, j)

alt_try_as(a, j) ==
    IF a.entry = "pair" THEN pair_try_as(a, j) ELSE field_try_as(a.entry, j)

alt_to_json(a, value) ==
    IF a.entry = "pair" THEN pair_to_json(a, value) ELSE field_to_json(a.entry, value)

\* A std::variant holding value as its alternative number index (from 0).
Variant(index, value) == [index |-> index, value |-> value]

RECURSIVE is_variant(_, _, _)
is_variant(c, N, j) ==
    IF N = Len(c.alts) THEN FALSE
    ELSE IF alt_is(c.alts[N + 1], j) THEN TRUE
    ELSE is_variant(c, N + 1, j)

\* The body of as_variant<N> once res is known; rest is as_variant<N+1>.
as_variant_alternative(N, is_T, res, rest) ==
    IF is_T
    THEN IF ~res.ok THEN Unexpected("not_variant", <<>>)
         ELSE Expected(Variant(N, res.value))
    ELSE rest

RECURSIVE as_variant(_, _, _)
as_variant(c, N, j) ==
    IF N = Len(c.alts) THEN Unexpected("not_variant", <<>>)
    ELSE as_variant_alternative(N, alt_is(c.alts[N + 1], j),
                                alt_try_as(c.alts[N + 1], j),
                                as_variant(c, N + 1, j))

variant_is(c, j) == is_variant(c, 0, j)

variant_try_as(c, j) == as_variant(c, 0, j)

\* std::visit(variant_to_json_visitor, var)
variant_to_json(c, var) == alt_to_json(c.alts[var.index + 1], var.value)

\* ---- map-like types ----

\* The member names of the objects given to the map entries, and the
\* integers that the names holding decimal text stand for.
MapKeys == {"1", "foo"}

to_integer(str) == IF str = "1" THEN 1 ELSE 0

is_decimal(str) == str = "1"

\* json_conv_traits<Json,key_type>::try_as(Json(item.key())) for an integer
\* key_type.
key_try_as(str) ==
    IF is_decimal(str) THEN Expected(to_integer(str))
    ELSE Unexpected("not_integer", <<>>)

\* result.emplace(key, value): an existing key keeps its value.
emplace(result, key, value) ==
    IF key \in DOMAIN result THEN result
    ELSE [k \in DOMAIN result \cup {key} |-> IF k = key THEN value ELSE result[k]]

\* The loop over j.object_range() from member i on, for key types that are
\* constructible from the characters of the member name.
RECURSIVE map_try_as_members(_, _, _, _)
map_try_as_members(c, j, i, result) ==
    IF i > Len(j.members) THEN Expected(result)
    ELSE IF ~field_try_as(c.types[1], j.members[i].value).ok
    THEN Unexpected(field_try_as(c.types[1], j.members[i].value).ec,
                    field_try_as(c.types[1], j.members[i].value).arg)
    ELSE map_try_as_members(c, j, i + 1,
            emplace(result, j.members[i].key,
                    field_try_as(c.types[1], j.members[i].value).value))

map_try_as(c, j) ==
    IF ~is_object(j) THEN Unexpected("not_map", <<>>)
    ELSE map_try_as_members(c, j, 1, <<>>)

\* The same loop for key types converted through their own entry; the
\* mapped value is taken with as<mapped_type>(), which raises conv_error
\* where try_as returns an error.
RECURSIVE map_key_try_as_members(_, _, _, _)
map_key_try_as_members(c, j, i, result) ==
    IF i > Len(j.members) THEN Expected(result)
    ELSE IF ~key_try_as(j.members[i].key).ok THEN key_try_as(j.members[i].key)
    ELSE IF ~field_try_as(c.types[1], j.members[i].value).ok
    THEN Throw(field_try_as(c.types[1], j.members[i].value).ec)
    ELSE map_key_try_as_members(c, j, i + 1,
            emplace(result, key_try_as(j.members[i].key).value,
                    field_try_as(c.types[1], j.members[i].value).value))

\* object_range() raises for a value that is not an object.
map_key_try_as(c, j) ==
    IF ~is_object(j) THEN Throw("not_an_object")
    ELSE map_key_try_as_members(c, j, 1, <<>>)

\* ---- the entries under one interface ----

\* ---- std::chrono::duration<Rep,Period> for the periods second, milli and
\* ---- nano.  Rep is a signed integer of RepBits bits. ----

RepBits == 29

Modulus == 2^RepBits
RepMax == 2^(RepBits - 1) - 1
RepMin == -(2^(RepBits - 1))

nanos_in_milli == 1000000
nanos_in_second == 1000000000
millis_in_second == 1000

Durations == {"seconds", "milliseconds", "nanoseconds"}

Tags == {"none", "epoch_second", "epoch_milli", "epoch_nano"}

\* A document carrying a semantic tag.
Tagged(j, tag) ==
    [kind |-> j.kind, n |-> j.n, s |-> j.s, members |-> j.members, tag |-> tag]

\* The decimal texts given to the entry and the numbers they denote.
DecimalTexts ==
    <<"0", "1", "-1", "999", "-999", "1500", "-1500", "1500000", "-1500000",
      "1500000000", "-1500000000">>
DecimalNumbers ==
    <<0, 1, -1, 999, -999, 1500, -1500, 1500000, -1500000,
      1500000000, -1500000000>>

\* to_bigint(sv.data(), sv.length(), n): fails on a text that is not a
\* decimal number.
to_bigint(str) ==
    IF \E k \in 1..Len(DecimalTexts) : DecimalTexts[k] = str
    THEN [ok |-> TRUE,
          n |-> DecimalNumbers[CHOOSE k \in 1..Len(DecimalTexts) : DecimalTexts[k] = str]]
    ELSE [ok |-> FALSE, n |-> 0]

\* j.try_as<Rep>() and dec_to_integer: an integer, or a string holding a
\* decimal number, within the range of Rep.
try_as_Rep(j) ==
    IF j.kind = "int"
    THEN [ok |-> j.n >= RepMin /\ j.n <= RepMax, n |-> j.n]
    ELSE IF j.kind = "string" /\ to_bigint(j.s).ok
    THEN [ok |-> to_bigint(j.s).n >= RepMin /\ to_bigint(j.s).n <= RepMax,
          n |-> to_bigint(j.s).n]
    ELSE [ok |-> FALSE, n |-> 0]

\* A division that rounds toward negative infinity.
floor_div(a, b) == a \div b

\* a / b on integers: the quotient with its fractional part discarded.
cpp_div(a, b) == IF a >= 0 THEN a \div b ELSE -((-a) \div b)

\* bigint::operator/
bigint_div(a, b) == IF a >= 0 THEN a \div b ELSE -((-a) \div b)

\* a * b modulo Modulus for 0 <= a, b < Modulus, by doubling.
RECURSIVE MulMod(_, _)
MulMod(a, b) ==
    IF b = 0 THEN 0
    ELSE (((2 * MulMod(a, b \div 2)) % Modulus) + (b % 2) * a) % Modulus

\* count * factor is a value of Rep.
Representable(count, factor) ==
    IF count >= 0 THEN count <= RepMax \div factor
    ELSE -count <= (-RepMin) \div factor

\* The outcomes of count*factor in Rep.  A product outside the range of Rep
\* is a signed overflow: the build returns the product reduced modulo
\* Modulus, or stops at a trap.
multiply(count, factor) ==
    IF Representable(count, factor)
    THEN {Expected(count * factor)}
    ELSE {Expected(IF MulMod(count % Modulus, factor % Modulus) > RepMax
                   THEN MulMod(count % Modulus, factor % Modulus) - Modulus
                   ELSE MulMod(count % Modulus, factor % Modulus)),
          [ok |-> FALSE, value |-> 0, ec |-> "", arg |-> <<"trap">>]}

not_epoch == {Unexpected("not_epoch", <<>>)}

\* n / factor on a bigint read from a string, then static_cast<Rep>.
bigint_from_json(j, factor) ==
    IF ~to_bigint(j.s).ok THEN not_epoch
    ELSE {Expected(IF to_bigint(j.s).n # 0
                   THEN bigint_div(to_bigint(j.s).n, factor)
                   ELSE to_bigint(j.s).n)}

\* from_json_ for Period = std::ratio<1>
seconds_from_json(j) ==
    IF j.kind = "int"
    THEN CASE j.tag = "epoch_milli" ->
                {Expected(IF j.n = 0 THEN 0 ELSE cpp_div(j.n, millis_in_second))}
           [] j.tag = "epoch_nano" ->
                {Expected(IF j.n = 0 THEN 0 ELSE cpp_div(j.n, nanos_in_second))}
           [] OTHER -> {Expected(j.n)}
    ELSE IF j.kind = "string"
    THEN CASE j.tag = "epoch_milli" -> bigint_from_json(j, millis_in_second)
           [] j.tag = "epoch_nano" -> bigint_from_json(j, nanos_in_second)
           [] OTHER -> IF ~try_as_Rep(j).ok THEN not_epoch
                       ELSE {Expected(try_as_Rep(j).n)}
    ELSE not_epoch

\* from_json_ for Period = std::milli
milliseconds_from_json(j) ==
    IF j.kind = "int"
    THEN IF ~try_as_Rep(j).ok THEN not_epoch
         ELSE CASE j.tag = "epoch_second" -> multiply(try_as_Rep(j).n, millis_in_second)
                [] j.tag = "epoch_nano" ->
                    {Expected(IF try_as_Rep(j).n = 0 THEN 0
                              ELSE cpp_div(try_as_Rep(j).n, nanos_in_milli))}
                [] OTHER -> {Expected(try_as_Rep(j).n)}
    ELSE IF j.kind = "string"
    THEN CASE j.tag = "epoch_second" ->
                IF ~try_as_Rep(j).ok THEN not_epoch
                ELSE multiply(try_as_Rep(j).n, millis_in_second)
           [] j.tag = "epoch_nano" -> bigint_from_json(j, nanos_in_milli)
           [] OTHER -> IF ~try_as_Rep(j).ok THEN not_epoch
                       ELSE {Expected(try_as_Rep(j).n)}
    ELSE not_epoch

\* from_json_ for Period = std::nano
nanoseconds_from_json(j) ==
    IF j.kind = "int"
    THEN CASE j.tag = "epoch_second" -> multiply(j.n, nanos_in_second)
           [] j.tag = "epoch_milli" -> multiply(j.n, nanos_in_milli)
           [] OTHER -> {Expected(j.n)}
    ELSE IF j.kind = "string"
    THEN IF ~try_as_Rep(j).ok THEN not_epoch
         ELSE CASE j.tag = "epoch_second" -> multiply(try_as_Rep(j).n, nanos_in_second)
                [] j.tag = "epoch_milli" -> multiply(try_as_Rep(j).n, nanos_in_milli)
                [] OTHER -> {Expected(try_as_Rep(j).n)}
    ELSE not_epoch

\* json_conv_traits<Json,std::chrono::duration<Rep,Period>>::try_as
duration_try_as(c, j) ==
    CASE c.entry = "seconds" -> seconds_from_json(j)
      [] c.entry = "milliseconds" -> milliseconds_from_json(j)
      [] c.entry = "nanoseconds" -> nanoseconds_from_json(j)

\* ---- std::bitset<N>: a native value is the sequence of its N bits, bit 0
\* ---- first ----

MaxBits == 9

\* A byte string holding the bytes bits, and a string holding the characters
\* chars.
ByteString(bits) == [kind |-> "byte_string", n |-> 0, s |-> "", members |-> bits]
CharString(chars) == [kind |-> "string", n |-> 0, s |-> "", members |-> chars]

is_byte_string(j) == j.kind = "byte_string"

HexDigits ==
    <<"0", "1", "2", "3", "4", "5", "6", "7", "8", "9", "A", "B", "C", "D", "E", "F">>

HexValue(ch) == (CHOOSE k \in 1..Len(HexDigits) : HexDigits[k] = ch) - 1

\* base16_to_bytes: two hexadecimal digits per byte, high digit first; an
\* odd length or another character is an error.
base16_to_bytes(chars) ==
    IF Len(chars) % 2 = 0
        /\ \A k \in 1..Len(chars) : \E d \in 1..Len(HexDigits) : HexDigits[d] = chars[k]
    THEN [ok |-> TRUE,
          bytes |-> [k \in 1..(Len(chars) \div 2) |->
                        16 * HexValue(chars[2 * k - 1]) + HexValue(chars[2 * k])]]
    ELSE [ok |-> FALSE, bytes |-> <<>>]

bitset_is(j) ==
    IF is_byte_string(j) THEN TRUE
    ELSE IF j.kind = "string" THEN base16_to_bytes(j.members).ok
    ELSE FALSE

\* The loop of try_as over i, with pos, byte and mask as the loop leaves
\* them; a byte is fetched when mask is 0.
RECURSIVE bitset_try_as_loop(_, _, _, _, _, _, _)
bitset_try_as_loop(N, bits, i, pos, byte, mask, bs) ==
    IF i >= N THEN Expected(bs)
    ELSE IF mask = 0
    THEN IF pos >= Len(bits) THEN Unexpected("not_bitset", <<>>)
         ELSE bitset_try_as_loop(N, bits, i, pos + 1, bits[pos + 1], 128, bs)
    ELSE bitset_try_as_loop(N, bits, i + 1, pos, byte, mask \div 2,
                            Append(bs, (byte \div mask) % 2 = 1))

bitset_try_as(c, j) ==
    IF j.kind = "int" /\ j.n >= 0
    THEN Expected([i \in 1..c.N |-> (j.n \div (2^(i - 1))) % 2 = 1])
    ELSE IF is_byte_string(j)
    THEN bitset_try_as_loop(c.N, j.members, 0, 0, 0, 0, <<>>)
    ELSE IF j.kind = "string"
    THEN IF ~base16_to_bytes(j.members).ok THEN Unexpected("not_bitset", <<>>)
         ELSE bitset_try_as_loop(c.N, base16_to_bytes(j.members).bytes, 0, 0, 0, 0, <<>>)
    ELSE Unexpected("not_bitset", <<>>)

\* A to_json loop that emits one zero byte per eight bits and nothing for
\* the remaining bits.
bitset_to_json_loop_no_remainder(val, i, byte, mask, bits) ==
    [k \in 1..(Len(val) \div 8) |-> 0]

\* The loop of to_json over i, then the remainder.
RECURSIVE bitset_to_json_loop(_, _, _, _, _)
bitset_to_json_loop(val, i, byte, mask, bits) ==
    IF i >= Len(val)
    THEN IF mask # 128 THEN Append(bits, byte) ELSE bits
    ELSE IF mask \div 2 = 0
    THEN bitset_to_json_loop(val, i + 1, 0, 128,
            Append(bits, byte + (IF val[i + 1] THEN mask ELSE 0)))
    ELSE bitset_to_json_loop(val, i + 1, byte + (IF val[i + 1] THEN mask ELSE 0),
            mask \div 2, bits)

bitset_to_json(c, val) ==
    Tagged(ByteString(bitset_to_json_loop(val, 0, 0, 128, <<>>)), "base16")

\* ---- to_json of a map whose key_type is std::variant<int, std::string>,
\* ---- a key type that is not constructible from characters ----

IntKey(n) == [index |-> 0, n |-> n, s |-> ""]
StrKey(str) == [index |-> 1, n |-> 0, s |-> str]

\* json_conv_traits<Json,key_type>::to_json(item.first)
key_to_json(k) == IF k.index = 0 THEN JInt(k.n) ELSE JStr(k.s)

is_string_view(j) == j.kind = "string"

\* temp.dump(key) for an integer: its decimal text.
dump(j) == IF j.n = 1 THEN "1" ELSE "0"

\* The member name the loop body gives to a key.
member_name(k) ==
    IF is_string_view(key_to_json(k)) THEN key_to_json(k).s
    ELSE dump(key_to_json(k))

\* The loop over the map's items, in the map's iteration order.
RECURSIVE map_key_to_json_items(_, _, _, _)
map_key_to_json_items(c, val, i, j) ==
    IF i > Len(val) THEN j
    ELSE map_key_to_json_items(c, val, i + 1,
            try_emplace(j, member_name(val[i].first),
                        field_to_json(c.types[1], val[i].second)))

map_key_to_json(c, val) == map_key_to_json_items(c, val, 1, JObject(<<>>))

entry_is(c, j) ==
    CASE c.entry = "pair" -> IsResult(pair_is(c, j), FALSE)
      [] c.entry = "tuple" -> tuple_is(c, j)
      [] c.entry = "array" -> IsResult(array_is(c, j), FALSE)
      [] c.entry = "variant" -> IsResult(variant_is(c, j), FALSE)
      [] c.entry \in Containers -> IsResult(container_is(c, j), FALSE)
      [] c.entry = "bitset" -> IsResult(bitset_is(j), FALSE)
      [] OTHER -> IsResult(field_is(c.entry, j), FALSE)

entry_try_as(c, j) ==
    CASE c.entry = "pair" -> pair_try_as(c, j)
      [] c.entry = "tuple" -> tuple_try_as(c, j)
      [] c.entry = "array" -> array_try_as(c, j)
      [] c.entry = "variant" -> variant_try_as(c, j)
      [] c.entry = "map" -> map_try_as(c, j)
      [] c.entry = "map_key" -> map_key_try_as(c, j)
      [] c.entry = "back_insertable" -> back_insertable_try_as(c, j)
      [] c.entry = "insertable" -> insertable_try_as(c, j)
      [] c.entry = "front_insertable" -> front_insertable_try_as(c, j)
      [] c.entry = "bitset" -> bitset_try_as(c, j)
      [] OTHER -> field_try_as(c.entry, j)

entry_to_json(c, val) ==
    CASE c.entry = "pair" -> pair_to_json(c, val)
      [] c.entry = "tuple" -> tuple_to_json(c, val)
      [] c.entry = "array" -> array_to_json(c, val)
      [] c.entry = "variant" -> variant_to_json(c, val)
      [] c.entry \in Containers -> container_to_json(c, val)
      [] c.entry = "map_variant_key" -> map_key_to_json(c, val)
      [] c.entry = "bitset" -> bitset_to_json(c, val)
      [] OTHER -> field_to_json(c.entry, val)

\* ---- native types, native values and documents ----

TypeLists(n) == [1..n -> ElementTypes]

PairTypes == {Entry("pair", ts, 0, <<>>) : ts \in TypeLists(2)}

Alternatives ==
    {Entry(T, <<>>, 0, <<>>) : T \in ElementTypes}
        \cup {Entry("pair", <<T, "plain">>, 0, <<>>) : T \in ElementTypes}

\* The alternatives of a variant are distinct types.
VariantTypes ==
    {Entry("variant", <<>>, 0, alts) :
        alts \in {a \in UNION {[1..n -> Alternatives] : n \in 1..2} :
                    \A i, k \in 1..Len(a) : a[i] = a[k] => i = k}}

EntryTypes ==
    {Entry(T, <<>>, 0, <<>>) : T \in Types}
        \cup PairTypes
        \cup {Entry("tuple", ts, 0, <<>>) : ts \in UNION {TypeLists(n) : n \in 0..MaxArity}}
        \cup {Entry("array", <<T>>, N, <<>>) : T \in ElementTypes, N \in 0..MaxArity}
        \cup VariantTypes
        \cup {Entry(e, <<T>>, 0, <<>>) : e \in {"map", "map_key"}, T \in ElementTypes}
        \cup {Entry(e, <<T>>, 0, <<>>) : e \in Containers, T \in ElementTypes}
        \cup {Entry("map_variant_key", <<T>>, 0, <<>>) : T \in ElementTypes}
        \cup {Entry(d, <<>>, 0, <<>>) : d \in Durations}
        \cup {Entry("bitset", <<>>, N, <<>>) : N \in 0..MaxBits}

AllFieldValues == UNION {FieldValues(T) : T \in Types}

TupleValues(types) ==
    {v \in [1..Len(types) -> AllFieldValues] :
        \A i \in 1..Len(types) : v[i] \in FieldValues(types[i])}

AlternativeValues(a) ==
    IF a.entry = "pair" THEN TupleValues(a.types) ELSE FieldValues(a.entry)

\* The keys of a std::map<std::variant<int, std::string>, T> in the order
\* of std::variant's operator<: by alternative, then by value.
KeyOrder == <<IntKey(0), IntKey(1), StrKey("1"), StrKey("foo")>>

\* The maps of at most two items, each as its items in iteration order.
VariantKeyMaps(T) ==
    UNION {{[i \in 1..Len(ks) |-> [first |-> KeyOrder[ks[i]], second |-> vs[i]]] :
                vs \in [1..Len(ks) -> FieldValues(T)]} :
            ks \in {k \in UNION {[1..n -> 1..Len(KeyOrder)] : n \in 0..2} :
                        \A a, b \in 1..Len(k) : a < b => k[a] < k[b]}}

\* The number of groups the native values of type c fall into: one per
\* alternative of a variant.
NumAlternatives(c) == IF c.entry = "variant" THEN Len(c.alts) ELSE 1

\* The native values of type c that are encoded; for a variant, those
\* holding alternative k.
EntryValues(c, k) ==
    CASE c.entry \in {"pair", "tuple"} -> TupleValues(c.types)
      [] c.entry = "array" -> [1..c.N -> FieldValues(c.types[1])]
      [] c.entry = "variant" ->
            {Variant(k - 1, v) : v \in AlternativeValues(c.alts[k])}
      [] c.entry \in {"map", "map_key", "insertable"} \cup Durations -> {}
      [] c.entry = "map_variant_key" -> VariantKeyMaps(c.types[1])
      [] c.entry = "bitset" -> [1..c.N -> BOOLEAN]
      [] c.entry \in {"back_insertable", "front_insertable"} ->
            UNION {[1..n -> FieldValues(c.types[1])] : n \in 0..MaxArity}
      [] OTHER -> FieldValues(c.entry)

Arrays ==
    {JArray(es) : es \in UNION {[1..n -> MemberValues] : n \in 0..(MaxArity + 1)}}

MapObjects ==
    {JObject(ms) :
        ms \in {m \in UNION {[1..n -> [key : MapKeys, value : MemberValues]] : n \in 0..2} :
                    \A i, k \in 1..Len(m) : m[i].key = m[k].key => i = k}}

\* Byte strings of up to two bytes, strings of up to four characters, some
\* of them hexadecimal digits, and values of other kinds.
BitsetDocuments ==
    {ByteString(bs) : bs \in UNION {[1..n -> {0, 128, 165, 255}] : n \in 0..2}}
        \cup {CharString(cs) : cs \in UNION {[1..n -> {"0", "8", "F", "g"}] : n \in 0..4}}
        \cup {JNull, JInt(0), JInt(1), JInt(5)}

\* The documents given to an entry; objects are given to the map entries
\* only.
EntryDocuments(c) ==
    IF c.entry \in {"map", "map_key"}
    THEN MemberValues \cup {JArray(<<>>)} \cup MapObjects
    ELSE IF c.entry = "bitset" THEN BitsetDocuments
    ELSE MemberValues \cup {JInt(0)} \cup Arrays

EntryInit ==
    /\ op = "none"
    /\ cls \in EntryTypes
    /\ arg = <<>>
    /\ out = <<>>
    /\ orig = <<>>

\* j.is<T>()
EntryIs ==
    /\ op = "none"
    /\ cls.entry \notin {"map", "map_key", "map_variant_key"} \cup Durations
    /\ \E j \in EntryDocuments(cls) :
        /\ op' = "entry_is"
        /\ arg' = j
        /\ out' = entry_is(cls, j)
    /\ UNCHANGED <<cls, orig>>

\* j.try_as<T>()
EntryTryAs ==
    /\ op = "none"
    /\ cls.entry \notin {"map_variant_key"} \cup Durations
    /\ \E j \in EntryDocuments(cls) :
        /\ op' = "entry_try_as"
        /\ arg' = j
        /\ out' = entry_try_as(cls, j)
    /\ UNCHANGED <<cls, orig>>

\* Json(val)
EntryToJson ==
    /\ op = "none"
    /\ \E k \in 1..NumAlternatives(cls) : \E val \in EntryValues(cls, k) :
        /\ op' = "entry_to_json"
        /\ arg' = val
        /\ out' = entry_to_json(cls, val)
    /\ UNCHANGED <<cls, orig>>

\* Json(val).try_as<T>()
EntryTryAsOfEncoded ==
    /\ op = "entry_to_json"
    /\ cls.entry # "map_variant_key"
    /\ op' = "entry_decode_encoded"
    /\ arg' = out
    /\ out' = entry_try_as(cls, out)
    /\ orig' = arg
    /\ UNCHANGED cls

\* The integers and strings given to the duration entry: every decimal
\* number as a string, those within the range of Rep as integers too.
DurationDocuments ==
    {Tagged(j, tag) :
        j \in {JInt(DecimalNumbers[k]) :
                    k \in {i \in 1..Len(DecimalNumbers) :
                                /\ DecimalNumbers[i] >= RepMin
                                /\ DecimalNumbers[i] <= RepMax}}
              \cup {JStr(DecimalTexts[k]) : k \in 1..Len(DecimalTexts)}
              \cup {JStr("foo"), JNull},
        tag \in Tags}

\* j.try_as<std::chrono::duration<Rep,Period>>()
DurationTryAs ==
    /\ op = "none"
    /\ cls.entry \in Durations
    /\ \E j \in DurationDocuments : \E r \in duration_try_as(cls, j) :
        /\ op' = "duration_try_as"
        /\ arg' = j
        /\ out' = r
    /\ UNCHANGED <<cls, orig>>

EntryNext ==
    \/ EntryIs
    \/ EntryTryAs
    \/ EntryToJson
    \/ EntryTryAsOfEncoded
    \/ DurationTryAs

EntrySpec == EntryInit /\ [][EntryNext]_vars

\* ---- Properties of the entries ----

\* Position i (from 1) of the tuple or pair type cls exists in arg and its
\* element passes the is check, or converts, for that position's type.
PositionIs(i) ==
    in_range(arg, i - 1) /\ field_is(cls.types[i], at(arg, i - 1))

PositionConverts(i) ==
    in_range(arg, i - 1) /\ field_try_as(cls.types[i], at(arg, i - 1)).ok

Positions == 1..Len(cls.types)

ExactArity == is_array(arg) /\ size(arg) = Len(cls.types)

\* C14: for pair and tuple types, is returns true only when every position
\* passes its is check, and try_as on an array of the type's arity fails at
\* the first position whose extraction fails, with that position's error
\* code, and succeeds when no position fails.
C14_EveryPositionChecked ==
    /\ (op = "entry_is" /\ cls.entry \in {"pair", "tuple"}
            /\ ~out.thrown /\ out.value)
        => \A i \in Positions : PositionIs(i)
    /\ (op = "entry_try_as" /\ cls.entry \in {"pair", "tuple"} /\ ExactArity)
        => /\ out.ok <=> \A i \in Positions : PositionConverts(i)
           /\ \A i \in Positions :
                (~PositionConverts(i) /\ \A k \in 1..(i - 1) : PositionConverts(k))
                    => out = Unexpected(field_try_as(cls.types[i], at(arg, i - 1)).ec, <<>>)

\* C15: for a tuple type with N element types, a source that is not an
\* array of exactly N elements is rejected: try_as returns a typed failure
\* and is returns false.
C15_TupleArityRejected ==
    /\ (op = "entry_try_as" /\ cls.entry = "tuple" /\ ~ExactArity)
        => (~out.ok /\ out.arg # <<"throw">>)
    /\ (op = "entry_is" /\ cls.entry = "tuple" /\ ~ExactArity)
        => (~out.thrown /\ ~out.value)

\* Alternative k (from 1) of the variant type cls both matches arg and
\* extracts from it.
MatchesAndExtracts(k) ==
    alt_is(cls.alts[k], arg) /\ alt_try_as(cls.alts[k], arg).ok

AlternativeIndices == 1..Len(cls.alts)

\* C16: try_as of a variant type returns the first alternative, in declared
\* order, that both matches and extracts, also when an earlier alternative
\* matched and failed to extract, and fails with not_variant only when no
\* alternative both matches and extracts.
C16_FirstMatchingAndExtracting ==
    (op = "entry_try_as" /\ cls.entry = "variant")
        => /\ \A k \in AlternativeIndices :
                (MatchesAndExtracts(k) /\ \A k2 \in 1..(k - 1) : ~MatchesAndExtracts(k2))
                    => /\ out.ok
                       /\ out.value.index = k - 1
                       /\ out.value.value = alt_try_as(cls.alts[k], arg).value
           /\ (\A k \in AlternativeIndices : ~MatchesAndExtracts(k))
                => (~out.ok /\ out.ec = "not_variant")

\* C17: encoding a variant and decoding the result returns a variant with
\* the same active alternative and the same contained value.
C17_VariantRoundTrip ==
    (op = "entry_decode_encoded" /\ cls.entry = "variant")
        => /\ out.ok
           /\ out.value.index = orig.index
           /\ out.value.value = orig.value

\* C18: decoding an array whose length differs from N into a fixed-size
\* array of N elements fails with not_array, so nothing is truncated or
\* padded, and is returns false for the same input.
C18_FixedArrayArity ==
    /\ (op = "entry_try_as" /\ cls.entry = "array"
            /\ is_array(arg) /\ size(arg) # cls.N)
        => (~out.ok /\ out.ec = "not_array" /\ out.arg = <<>>)
    /\ (op = "entry_is" /\ cls.entry = "array"
            /\ is_array(arg) /\ size(arg) # cls.N)
        => (~out.thrown /\ ~out.value)

\* An array one element longer than N whose elements all convert was
\* refused.
C18_Witness ==
    /\ op = "entry_try_as"
    /\ cls.entry = "array"
    /\ is_array(arg)
    /\ size(arg) = cls.N + 1
    /\ \A i \in 0..(size(arg) - 1) : field_try_as(cls.types[1], at(arg, i)).ok
    /\ out.ec = "not_array"

\* C22: try_as into a fixed-size array returns a conversion failure for every
\* source that is not an array, whatever N is.
C22_NonArrayRejected ==
    (op = "entry_try_as" /\ cls.entry = "array" /\ ~is_array(arg))
        => (~out.ok /\ out.arg # <<"throw">>)

Wrappers == {"optional", "shared_ptr", "unique_ptr"}

\* C19: for optional, shared_ptr and unique_ptr, try_as of null succeeds
\* with the absent value; try_as of any other value returns the inner
\* type's extraction, its value wrapped or its error unchanged; to_json of
\* the absent value is null.
C19_NullIsAbsent ==
    /\ (op = "entry_try_as" /\ cls.entry \in Wrappers /\ is_null(arg))
        => (out.ok /\ out.value = Empty)
    /\ (op = "entry_try_as" /\ cls.entry \in Wrappers /\ ~is_null(arg))
        => IF try_as_integer(arg).ok
           THEN out.ok /\ out.value = Engaged(arg.n)
           ELSE ~out.ok /\ out.ec = try_as_integer(arg).ec
                        /\ out.arg = try_as_integer(arg).arg
    /\ (op = "entry_to_json" /\ cls.entry \in Wrappers /\ ~arg.has)
        => out = JNull

\* A value that is neither null nor an integer was given to the shared_ptr
\* entry and the integer entry's error came back.
C19_Witness ==
    /\ op = "entry_try_as"
    /\ cls.entry = "shared_ptr"
    /\ arg = JStr("foo")
    /\ ~out.ok
    /\ out.ec = "not_integer"

\* Member i of the object arg holds a value that converts to the mapped
\* type of the map type cls.
MappedConverts(i) == field_try_as(cls.types[1], arg.members[i].value).ok

\* C20: try_as of a map type, whichever kind its key type is, returns a map
\* or a typed error and never raises: not_map for a source that is not an
\* object, and the failing conversion's error for the first member whose
\* value does not convert, when every member before it converts.
C20_MapTryAsTotal ==
    (op = "entry_try_as" /\ cls.entry \in {"map", "map_key"})
        => /\ out.arg # <<"throw">>
           /\ ~is_object(arg) => (~out.ok /\ out.ec = "not_map")
           /\ is_object(arg) =>
                \A i \in 1..Len(arg.members) :
                    (/\ ~MappedConverts(i)
                     /\ \A k \in 1..(i - 1) : MappedConverts(k)
                     /\ \A k \in 1..i : cls.entry = "map_key" => key_try_as(arg.members[k].key).ok)
                        => /\ ~out.ok
                           /\ out.ec = field_try_as(cls.types[1], arg.members[i].value).ec

\* Element i of the source converts to the container's element type.
ElementConverts(c, j, i) == field_try_as(c.types[1], at(j, i)).ok

\* C23: when an element of the source array does not convert, the container
\* entry's error is that element's own error.
C23_ElementErrorSurfaced ==
    (op = "entry_try_as" /\ cls.entry \in Containers \cup {"array"}
        /\ is_array(arg) /\ (cls.entry = "array" => size(arg) = cls.N)
        /\ \E i \in 0..(size(arg) - 1) : ~ElementConverts(cls, arg, i))
    => (~out.ok
        /\ \E i \in 0..(size(arg) - 1) :
                /\ ~ElementConverts(cls, arg, i)
                /\ out.ec = field_try_as(cls.types[1], at(arg, i)).ec)

\* C24: a sequence container decoded from an array holds the converted
\* elements in source order.
C24_OrderPreserved ==
    (op = "entry_try_as" /\ cls.entry \in {"back_insertable", "front_insertable"}
        /\ out.ok)
    => /\ Len(out.value) = size(arg)
       /\ \A i \in 1..size(arg) :
            out.value[i] = field_try_as(cls.types[1], at(arg, i - 1)).value

\* A front-insertable container was built from two elements that convert to
\* different values.
C24_Witness ==
    /\ op = "entry_try_as"
    /\ cls.entry = "front_insertable"
    /\ out.ok
    /\ size(arg) = 2
    /\ out.value[1] # out.value[2]

\* The items of the native map val that are given the member name m.
ItemsNamed(val, m) == {i \in 1..Len(val) : member_name(val[i].first) = m}

\* C25: encoding a map with keys that are not strings gives every member
\* name produced by a key exactly one member, whose value is that of the
\* last key written under the name.
C25_LastWriteWins ==
    (op = "entry_to_json" /\ cls.entry = "map_variant_key")
    => \A i \in 1..Len(arg) :
        /\ Cardinality({k \in 1..Len(out.members) :
                out.members[k].key = member_name(arg[i].first)}) = 1
        /\ \A k \in 1..Len(out.members) :
                out.members[k].key = member_name(arg[i].first) =>
                    \E l \in ItemsNamed(arg, out.members[k].key) :
                        /\ \A l2 \in ItemsNamed(arg, out.members[k].key) : l2 <= l
                        /\ out.members[k].value =
                                field_to_json(cls.types[1], arg[l].second)

\* The number of tag units in one unit of the entry's period when the tag
\* is finer than the period, and of period units in one tag unit when the
\* tag is coarser; 0 otherwise.
FinerFactor(c, tag) ==
    CASE c.entry = "seconds" /\ tag = "epoch_milli" -> 1000
      [] c.entry = "seconds" /\ tag = "epoch_nano" -> 1000000000
      [] c.entry = "milliseconds" /\ tag = "epoch_nano" -> 1000000
      [] OTHER -> 0

CoarserFactor(c, tag) ==
    CASE c.entry = "milliseconds" /\ tag = "epoch_second" -> 1000
      [] c.entry = "nanoseconds" /\ tag = "epoch_second" -> 1000000000
      [] c.entry = "nanoseconds" /\ tag = "epoch_milli" -> 1000000
      [] OTHER -> 0

\* The document is an integer count or a decimal string.
IsCount(j) == j.kind = "int" \/ (j.kind = "string" /\ to_bigint(j.s).ok)

Count(j) == IF j.kind = "int" THEN j.n ELSE to_bigint(j.s).n

TowardZero(count, factor) ==
    IF count >= 0 THEN count \div factor ELSE -((-count) \div factor)

\* C26: a count tagged with a finer unit than the entry's period decodes to
\* the count divided by the unit factor, truncated toward zero, whether it
\* arrives as an integer or as a decimal string.
C26_FinerTruncatesTowardZero ==
    (op = "duration_try_as" /\ FinerFactor(cls, arg.tag) # 0 /\ IsCount(arg))
    => (out.ok /\ out.value = TowardZero(Count(arg), FinerFactor(cls, arg.tag)))

\* A negative integer count that is not a multiple of the factor was decoded.
C26_Witness ==
    /\ op = "duration_try_as"
    /\ FinerFactor(cls, arg.tag) # 0
    /\ arg.kind = "int"
    /\ arg.n < 0
    /\ arg.n % FinerFactor(cls, arg.tag) # 0
    /\ out.ok
    /\ out.value < 0

\* C27: a count tagged with a coarser unit than the entry's period decodes
\* to a conversion error when count times the unit factor is outside the
\* range of Rep.
C27_CoarserOutOfRangeFails ==
    (op = "duration_try_as" /\ CoarserFactor(cls, arg.tag) # 0 /\ IsCount(arg)
        /\ ~Representable(Count(arg), CoarserFactor(cls, arg.tag)))
    => (~out.ok /\ out.ec # "" /\ out.arg = <<>>)

\* Byte k of a byte string has the bit under mask 0x80 >> m set.
BitSet(bytes, k, m) == (bytes[k + 1] \div (128 \div (2^m))) % 2 = 1

\* C28: to_json of a bit-set of N bits is a base16 byte string of
\* ceil(N/8) bytes holding bit i in byte i div 8 under mask 0x80 >> (i mod 8),
\* with the unused bits zero; try_as of that value is the bit-set; and try_as
\* of a byte string or hexadecimal string of fewer bytes fails with not_bitset.
C28_BitsetLayoutAndRoundTrip ==
    /\ (op = "entry_to_json" /\ cls.entry = "bitset") =>
            /\ is_byte_string(out)
            /\ out.tag = "base16"
            /\ Len(out.members) = (cls.N + 7) \div 8
            /\ \A i \in 0..(8 * Len(out.members) - 1) :
                    BitSet(out.members, i \div 8, i % 8) = (i < cls.N /\ arg[i + 1])
    /\ (op = "entry_decode_encoded" /\ cls.entry = "bitset") =>
            (out.ok /\ out.value = orig)
    /\ (op = "entry_try_as" /\ cls.entry = "bitset" /\ is_byte_string(arg)
            /\ Len(arg.members) < (cls.N + 7) \div 8) =>
            (~out.ok /\ out.ec = "not_bitset")
    /\ (op = "entry_try_as" /\ cls.entry = "bitset" /\ arg.kind = "string"
            /\ base16_to_bytes(arg.members).ok
            /\ Len(base16_to_bytes(arg.members).bytes) < (cls.N + 7) \div 8) =>
            (~out.ok /\ out.ec = "not_bitset")

\* A bit-set whose last bit is set and falls into a second, partly used
\* byte was encoded and decoded.
C28_Witness ==
    /\ op = "entry_decode_encoded"
    /\ cls.entry = "bitset"
    /\ cls.N > 8
    /\ cls.N % 8 # 0
    /\ orig[cls.N]
    /\ out.ok

-----------------------------------------------------------------------------
(* Decoding MessagePack.  The decoder reads one leading type byte, which   *)
(* selects the payload rule, and asks for the remaining length before      *)
(* every read; it reports what it read as events.  The formats covered are *)
(* nil, positive fixint, uint 8, fixstr and fixarray.                      *)

\* Largest number of elements of an encoded array.
MaxItems == 2

\* The leading bytes of the formats.
msgpack_type ==
    [nil |-> 192, uint8 |-> 204, fixstr_base |-> 160, fixarray_base |-> 144]

\* A source check that finds every length available.
source_has_unchecked(bytes, pos, n) == TRUE

\* The source holds n more bytes after the first pos.
source_has(bytes, pos, n) == pos + n <= Len(bytes)

\* The byte at offset pos; a read past the end yields an arbitrary byte,
\* taken as 0.
source_get(bytes, pos) == IF pos < Len(bytes) THEN bytes[pos + 1] ELSE 0

read_error(ec, pos, events) == [ok |-> FALSE, ec |-> ec, pos |-> pos, events |-> events]

\* The counts on the stack once the value being read is complete.
value_read(stack) == [stack EXCEPT ![Len(stack)] = @ - 1]

\* The read loop: pos is the number of bytes read, stack holds the number
\* of values still to read in each open container, innermost last, and in
\* the first place the one value of the message.
RECURSIVE read_value(_, _, _, _)
read_value(bytes, pos, stack, events) ==
    IF stack[Len(stack)] = 0
    THEN IF Len(stack) = 1
         THEN [ok |-> TRUE, ec |-> "", pos |-> pos, events |-> events]
         ELSE read_value(bytes, pos, SubSeq(stack, 1, Len(stack) - 1),
                         Append(events, <<"end_array", 0>>))
    ELSE IF ~source_has(bytes, pos, 1)
    THEN read_error("unexpected_eof", pos, events)
    ELSE IF source_get(bytes, pos) = msgpack_type.nil
    THEN read_value(bytes, pos + 1, value_read(stack), Append(events, <<"null", 0>>))
    ELSE IF source_get(bytes, pos) < 128
    THEN read_value(bytes, pos + 1, value_read(stack),
                    Append(events, <<"uint64", source_get(bytes, pos)>>))
    ELSE IF source_get(bytes, pos) = msgpack_type.uint8
    THEN IF ~source_has(bytes, pos + 1, 1)
         THEN read_error("unexpected_eof", pos + 1, events)
         ELSE read_value(bytes, pos + 2, value_read(stack),
                         Append(events, <<"uint64", source_get(bytes, pos + 1)>>))
    ELSE IF source_get(bytes, pos) \in msgpack_type.fixstr_base..(msgpack_type.fixstr_base + 31)
    THEN IF ~source_has(bytes, pos + 1, source_get(bytes, pos) - msgpack_type.fixstr_base)
         THEN read_error("unexpected_eof", pos + 1, events)
         ELSE read_value(bytes, pos + 1 + (source_get(bytes, pos) - msgpack_type.fixstr_base),
                         value_read(stack),
                         Append(events,
                                <<"string", source_get(bytes, pos) - msgpack_type.fixstr_base>>))
    ELSE IF source_get(bytes, pos) \in msgpack_type.fixarray_base..(msgpack_type.fixarray_base + 15)
    THEN read_value(bytes, pos + 1,
                    Append(value_read(stack), source_get(bytes, pos) - msgpack_type.fixarray_base),
                    Append(events,
                           <<"begin_array", source_get(bytes, pos) - msgpack_type.fixarray_base>>))
    ELSE read_error("unknown_type", pos, events)

\* try_decode_msgpack(source): the read_result
try_decode_msgpack(bytes) == read_value(bytes, 0, <<1>>, <<>>)

\* decode_msgpack(source): the value, or ser_error thrown with the read error
decode_msgpack(bytes, result) ==
    IF result.ok THEN result
    ELSE [ok |-> FALSE, ec |-> "ser_error", pos |-> result.pos,
          events |-> <<<<"throw", 0>>, <<result.ec, 0>>>>]

\* ---- messages an encoder produces ----

Scalars ==
    {<<msgpack_type.nil>>, <<0>>, <<1>>, <<msgpack_type.uint8, 200>>, <<msgpack_type.fixstr_base>>,
     <<msgpack_type.fixstr_base + 1, 97>>, <<msgpack_type.fixstr_base + 2, 97, 98>>}

Elements == {<<msgpack_type.nil>>, <<msgpack_type.uint8, 200>>, <<msgpack_type.fixstr_base + 1, 97>>}

RECURSIVE Concatenations(_)
Concatenations(n) ==
    IF n = 0 THEN {<<>>}
    ELSE {e \o rest : e \in Elements, rest \in Concatenations(n - 1)}

\* Arrays of 0..MaxItems elements.
FlatArrays ==
    UNION {{<<msgpack_type.fixarray_base + n>> \o body : body \in Concatenations(n)} :
            n \in 0..MaxItems}

\* An array holding an array and a scalar.
NestedArrays ==
    {<<msgpack_type.fixarray_base + 2>> \o a \o e : a \in FlatArrays, e \in Elements}

ValidMessages == Scalars \cup FlatArrays \cup NestedArrays

DecodeInit ==
    /\ op = "none"
    /\ cls \in ValidMessages
    /\ arg = <<>>
    /\ out = <<>>
    /\ orig = <<>>

\* try_decode_msgpack<T>(source) on the first k bytes of a message
TryDecode ==
    /\ op = "none"
    /\ \E k \in 0..Len(cls) :
        /\ op' = "try_decode"
        /\ arg' = SubSeq(cls, 1, k)
        /\ out' = try_decode_msgpack(SubSeq(cls, 1, k))
    /\ UNCHANGED <<cls, orig>>

\* decode_msgpack<T>(source) on the first k bytes of a message
Decode ==
    /\ op = "none"
    /\ \E k \in 0..Len(cls) :
        /\ op' = "decode"
        /\ arg' = SubSeq(cls, 1, k)
        /\ out' = decode_msgpack(SubSeq(cls, 1, k), try_decode_msgpack(SubSeq(cls, 1, k)))
    /\ UNCHANGED <<cls, orig>>

DecodeNext ==
    \/ TryDecode
    \/ Decode

DecodeSpec == DecodeInit /\ [][DecodeNext]_vars

\* C21: decoding a proper prefix of a valid message fails with the
\* truncation error, returned by try_decode and thrown as ser_error by
\* decode, and reads no byte past the end of the prefix.
C21_TruncatedPrefixFails ==
    (op \in {"try_decode", "decode"} /\ Len(arg) < Len(cls))
    => /\ ~out.ok
       /\ out.pos <= Len(arg)
       /\ op = "try_decode" => out.ec = "unexpected_eof"
       /\ op = "decode" => out.events = <<<<"throw", 0>>, <<"unexpected_eof", 0>>>>

\* A message was cut inside the payload of a string that is an element of
\* an array.
C21_Witness ==
    /\ op = "decode"
    /\ Len(arg) = Len(cls) - 1
    /\ cls[1] = msgpack_type.fixarray_base + 1
    /\ cls[2] = msgpack_type.fixstr_base + 1
    /\ ~out.ok

\* A whole message decodes.
WholeMessageDecodes ==
    (op \in {"try_decode", "decode"} /\ arg = cls) => (out.ok /\ out.pos = Len(cls))

====
